---- MODULE Spec2Model ----
(***************************************************************************)
(* A model of the task lifecycle manager of src/agents.py                  *)
(* (BrowserAutomationBackend): the task records, the step tracking with    *)
(* its observers, the timeout-bounded run of the external executor and the *)
(* performance metrics; and of the services of src/automation_utils.py:    *)
(* the backoff policy (calculate_retry_delay), the retry wrappers          *)
(* (retry_async, retry_sync) and the result cache (TaskCache), also with   *)
(* concurrent calls on one cache file; of the process supervisor of the    *)
(* display stack of src/vnc_manager.py (VNCManager); of the configurations *)
(* of src/automation_configs.py (templates, get_config, merge_configs) and *)
(* of _load_config; and of the flows of src/example_usage.py that put      *)
(* run_task behind the cache and behind the retry wrapper.                 *)
(*                                                                         *)
(* Python values are modelled as follows.                                  *)
(*   Optional[T]      the empty tuple None, or the one-element tuple <<x>> *)
(*   str (a message)  a tuple of words, so that "contains" is decidable    *)
(*   an object        an index into heap, the allocation order; two names  *)
(*                    of one object are the same index                     *)
(*   datetime.now()   the value of clock, which every call advances        *)
(*   a float          an exact fraction [num, den] in lowest terms         *)
(*                                                                         *)
(* Each service has its own variable and its own specification, which      *)
(* leaves the variables of the others as they are. SpecSubmit and          *)
(* SpecBatch compose the manager with the cache and with the retry         *)
(* wrapper. SpecLive states the fairness under which the calls that wait   *)
(* for something return.                                                   *)
(***************************************************************************)
EXTENDS Integers, Sequences, FiniteSets, TLC

VARIABLES
    backend,     \* the BrowserAutomationBackend instance
    unobserved,  \* the same instance driven by the same calls, with no observer registered
    calls,       \* the run_task coroutines suspended at their await
    ret,         \* what the most recent step of a call returned or raised
    clock,       \* the wall clock
    horizon,     \* the tick at which the clock of this behaviour stops
    retry,       \* one call of a function wrapped by retry_async or retry_sync
    backoff,     \* the most recent call of calculate_retry_delay
    cache,       \* a TaskCache, its directory and the most recent call on it
    race,        \* one cache file and the calls that run concurrently on it
    vnc,         \* a VNCManager, its handles and the process table of the host
    configs,     \* the dict objects of the configurations and the ones a caller holds
    flow         \* one caller that looks up the cache, runs a task and stores the result

\* The state of the lifecycle manager and of its callers.
lifecycle == <<backend, unobserved, calls, ret, clock, horizon>>

vars == <<lifecycle, retry, backoff, cache, race, vnc, configs, flow>>

----------------------------------------------------------------------------
(* Bounds of the model *)

\* The clock stops after this many ticks; a call that begins and an await that
\* ends take one tick each.
MaxClock == 5

\* The number of run_task coroutines that may be suspended at once (SpecOverlap).
MaxInFlight == 2

\* The ticks of SpecRuns, where tasks are created and run and nothing else is
\* called: three runs of one task take seven.
MaxClockRuns == 7

\* The largest max_attempts of the policies handed to the retry wrappers.
MaxAttempts == 3

\* The largest attempt number calculate_retry_delay is called with in SpecDelay.
MaxDelayAttempt == 5

\* The hours the clock of the cache runs for (SpecCache).
MaxHours == 2

\* The tick at which the clock stops in the behaviours of SpecLive.
MaxClockLive == 3

\* The number of calls that run concurrently on one cache file (SpecRace).
MaxRacers == 2

\* The number of start(), stop() and restart() calls on the supervisor
\* (SpecSupervisor).
MaxSupervisorCalls == 2

\* The number of faults of the host in one behaviour of the supervisor: scans
\* of the process table that fail and spawns that fail (SpecSupervisor).
MaxFaults == 2

\* The number of cache lookups of the submit flow (SpecSubmit).
MaxSubmits == 3

\* The number of configs a caller holds at once (SpecConfig).
MaxConfigs == 2

----------------------------------------------------------------------------
(* Inputs *)

TaskIds == {"t1", "t2"}

Descriptions == {"open the page"}

\* What a registered observer does when it is called with a step.
ObserverKinds == {"returns", "raises"}

\* What agent.run() may return: a dict, or any other object.
ExecutorResults ==
    { [py_type |-> "dict", value |-> "fields"],
      [py_type |-> "AgentHistoryList", value |-> "history"] }

\* The messages of the faults the executor may raise.
ExecutorFaults == { <<"connection", "refused">> }

\* Where building the execution environment may fail, with the fault's message.
EnvOutcomes == {"ok", "browser", "llm", "agent"}

EnvFaultMessage(env) ==
    CASE env = "browser" -> <<"browser", "launch", "failed">>
      [] env = "llm"     -> <<"api", "key", "missing">>
      [] env = "agent"   -> <<"agent", "rejected", "arguments">>

\* Seconds an executor run may take when it ends before the timeout.
Durations == {2, 4, 6}

\* config['performance']['timeout'] and ['max_steps'] of the default configuration.
DefaultTimeout == 300

DefaultMaxSteps == 50

----------------------------------------------------------------------------
(* Python values *)

None == <<>>

Some(x) == <<x>>

Range(s) == { s[i] : i \in DOMAIN s }

\* f"Task {task_id} not found"
NotFoundMessage(task_id) == <<"Task", task_id, "not", "found">>

\* f"Task {task_id} timed out after {timeout}s"
TimeoutMessage(task_id) == <<"Task", task_id, "timed out", "after", ToString(DefaultTimeout), "s">>

\* f"step_{n}"
StepId(n) == [prefix |-> "step_", n |-> n]

RECURSIVE Gcd(_, _)
Gcd(a, b) == IF b = 0 THEN a ELSE Gcd(b, a % b)

Fraction(num, den) ==
    LET g == Gcd(num, den) IN
    IF g = 0 THEN [num |-> 0, den |-> 1] ELSE [num |-> num \div g, den |-> den \div g]

----------------------------------------------------------------------------
(* The task record and the manager *)

\* AutomationTask(task_id, description, status=PENDING, created_at=now)
AutomationTask(task_id, description, now) ==
    [ task_id      |-> task_id,
      description  |-> description,
      status       |-> "pending",
      created_at   |-> now,
      started_at   |-> None,
      completed_at |-> None,
      steps        |-> <<>>,
      result       |-> None,
      error        |-> None ]

\* TaskStep(step_id, action, timestamp, status, details, duration=None, error)
TaskStep(step_id, action, now, status, details, error) ==
    [ step_id   |-> step_id,
      action    |-> action,
      timestamp |-> now,
      status    |-> status,
      details   |-> details,
      duration  |-> None,
      error     |-> error ]

\* BrowserAutomationBackend.__init__; emitted and notified are the steps recorded
\* and the observer calls made during the most recent call on the manager.
NewBackend ==
    [ tasks               |-> <<>>,
      heap                |-> <<>>,
      current_task        |-> None,
      step_callbacks      |-> <<>>,
      performance_metrics |-> [ total_tasks |-> 0, successful_tasks |-> 0, failed_tasks |-> 0,
                                average_task_duration |-> [num |-> 0, den |-> 1] ],
      emitted             |-> <<>>,
      notified            |-> <<>> ]

\* task_id in self.tasks
Known(b, task_id) == task_id \in DOMAIN b.tasks

\* self.tasks[task_id], as the record it names
TaskOf(b, task_id) == b.heap[b.tasks[task_id]]

----------------------------------------------------------------------------
(* add_step_callback *)

add_step_callback(b, callback) ==
    [b EXCEPT !.step_callbacks = Append(@, callback)]

----------------------------------------------------------------------------
(* create_task: builds a new record and stores it under task_id, whatever  *)
(* was stored there.                                                       *)

create_task(b, task_id, description, now) ==
    LET ref == Len(b.heap) + 1 IN
    [b EXCEPT !.heap  = Append(@, AutomationTask(task_id, description, now)),
              !.tasks = [ i \in (DOMAIN @) \cup {task_id} |-> IF i = task_id THEN ref ELSE @[i] ]]

----------------------------------------------------------------------------
(* _track_step *)

\* A variant without the try/except around the callback: the first raise ends the loop.
RECURSIVE CallCallbacksUncontained(_, _, _, _)
CallCallbacksUncontained(callbacks, i, ref, step) ==
    IF i > Len(callbacks) THEN <<>>
    ELSE <<[callback |-> i, task |-> ref, step_id |-> step.step_id,
            raised |-> (callbacks[i] = "raises")]>>
         \o (IF callbacks[i] = "raises" THEN <<>>
             ELSE CallCallbacksUncontained(callbacks, i + 1, ref, step))

\* The loop over self.step_callbacks from the i-th on: each is called with the
\* step inside its own try/except Exception, so a raise is logged and the loop
\* goes on.
RECURSIVE CallCallbacks(_, _, _, _)
CallCallbacks(callbacks, i, ref, step) ==
    IF i > Len(callbacks) THEN <<>>
    ELSE <<[callback |-> i, task |-> ref, step_id |-> step.step_id,
            raised |-> (callbacks[i] = "raises")]>>
         \o CallCallbacks(callbacks, i + 1, ref, step)

\* A variant that numbers the step by len(steps), without the + 1.
TrackStepFromZero(b, action, details, status, error, now) ==
    IF b.current_task = None THEN b
    ELSE LET ref  == b.current_task[1]
             step == TaskStep(StepId(Len(b.heap[ref].steps)), action, now, status,
                              details, error)
         IN [b EXCEPT !.heap[ref].steps = Append(@, step),
                      !.emitted = Append(@, [task |-> ref, step_id |-> step.step_id]),
                      !.notified = @ \o CallCallbacks(b.step_callbacks, 1, ref, step)]

_track_step(b, action, details, status, error, now) ==
    IF b.current_task = None THEN b
    ELSE LET ref  == b.current_task[1]
             step == TaskStep(StepId(Len(b.heap[ref].steps) + 1), action, now, status,
                              details, error)
         IN [b EXCEPT !.heap[ref].steps = Append(@, step),
                      !.emitted = Append(@, [task |-> ref, step_id |-> step.step_id]),
                      !.notified = @ \o CallCallbacks(b.step_callbacks, 1, ref, step)]

----------------------------------------------------------------------------
(* run_task, up to the await of the executor *)

\* task = self.tasks[task_id]; self.current_task = task; status = RUNNING;
\* started_at = now; the task_started step.  (structured_output_schema only adds
\* a keyword argument to Agent(...); it changes nothing the manager keeps.)
RunBegin(b, task_id, now) ==
    LET ref == b.tasks[task_id]
        b1  == [b EXCEPT !.current_task = Some(ref),
                         !.heap[ref].status = "running",
                         !.heap[ref].started_at = Some(now)]
    IN _track_step(b1, "task_started",
                   [task_id |-> task_id, description |-> b.heap[ref].description],
                   "completed", None, now)

\* _create_browser(), _create_llm(), the browser_created step, Agent(...), the
\* agent_created step: the steps recorded before env raises (or all of them).
BuildEnvironment(b, env, now) ==
    LET b1 == _track_step(b, "browser_created", [config |-> "browser"], "completed", None, now)
        b2 == _track_step(b1, "agent_created", [max_steps |-> DefaultMaxSteps], "completed",
                          None, now)
    IN CASE env \in {"browser", "llm"} -> b
         [] env = "agent"              -> b1
         [] env = "ok"                 -> b2

----------------------------------------------------------------------------
(* run_task: the three ways the await ends, each with the finally clause   *)

\* The envelope of a failed run.
FailedEnvelope(b, ref, task_id, error_msg, duration) ==
    [ task_id |-> task_id, status |-> "failed", error |-> error_msg, duration |-> duration,
      steps_count |-> Len(b.heap[ref].steps) ]

\* A variant of the outer handler that ends with a bare raise instead of a return.
OnExceptionReraises(b, ref, task_id, error_msg, duration, now) ==
    LET b1 == [b EXCEPT !.heap[ref].status = "failed",
                        !.heap[ref].error = Some(error_msg),
                        !.heap[ref].completed_at = Some(now)]
        b2 == _track_step(b1, "task_failed", [error |-> error_msg, duration |-> duration],
                          "failed", Some(error_msg), now)
        b3 == [b2 EXCEPT !.performance_metrics.total_tasks = @ + 1,
                         !.performance_metrics.failed_tasks = @ + 1]
    IN [ backend |-> [b3 EXCEPT !.current_task = None],
         raised  |-> Some([type |-> "Exception", message |-> error_msg]),
         value   |-> None ]

\* A variant of the outer handler that does not count the failure.
OnExceptionUncounted(b, ref, task_id, error_msg, duration, now) ==
    LET b1 == [b EXCEPT !.heap[ref].status = "failed",
                        !.heap[ref].error = Some(error_msg),
                        !.heap[ref].completed_at = Some(now)]
        b2 == _track_step(b1, "task_failed", [error |-> error_msg, duration |-> duration],
                          "failed", Some(error_msg), now)
        b3 == [b2 EXCEPT !.performance_metrics.total_tasks = @ + 1]
    IN [ backend |-> [b3 EXCEPT !.current_task = None],
         raised  |-> None,
         value   |-> Some(FailedEnvelope(b3, ref, task_id, error_msg, duration)) ]

\* except Exception as e: of the outer try, then finally.
OnException(b, ref, task_id, error_msg, duration, now) ==
    LET b1 == [b EXCEPT !.heap[ref].status = "failed",
                        !.heap[ref].error = Some(error_msg),
                        !.heap[ref].completed_at = Some(now)]
        b2 == _track_step(b1, "task_failed", [error |-> error_msg, duration |-> duration],
                          "failed", Some(error_msg), now)
        b3 == [b2 EXCEPT !.performance_metrics.total_tasks = @ + 1,
                         !.performance_metrics.failed_tasks = @ + 1]
    IN [ backend |-> [b3 EXCEPT !.current_task = None],
         raised  |-> None,
         value   |-> Some(FailedEnvelope(b3, ref, task_id, error_msg, duration)) ]

\* A variant of the inner handler that records no task_timeout step.
OnTimeoutUntracked(b, ref, task_id, duration, now) ==
    LET error_msg == TimeoutMessage(task_id)
        b1 == [b EXCEPT !.heap[ref].status = "failed",
                        !.heap[ref].error = Some(error_msg)]
    IN OnException(b1, ref, task_id, error_msg, duration, now)

\* A variant of the inner handler whose raise leaves run_task.
OnTimeoutPropagates(b, ref, task_id, duration, now) ==
    LET error_msg == TimeoutMessage(task_id)
        b1 == [b EXCEPT !.heap[ref].status = "failed",
                        !.heap[ref].error = Some(error_msg)]
        b2 == _track_step(b1, "task_timeout", [timeout |-> DefaultTimeout], "failed",
                          Some(error_msg), now)
    IN [ backend |-> [b2 EXCEPT !.current_task = None],
         raised  |-> Some([type |-> "TimeoutError", message |-> error_msg]),
         value   |-> None ]

\* except asyncio.TimeoutError: of the inner try, whose raise TimeoutError(error_msg)
\* is caught by the outer except Exception.
OnTimeout(b, ref, task_id, duration, now) ==
    LET error_msg == TimeoutMessage(task_id)
        b1 == [b EXCEPT !.heap[ref].status = "failed",
                        !.heap[ref].error = Some(error_msg)]
        b2 == _track_step(b1, "task_timeout", [timeout |-> DefaultTimeout], "failed",
                          Some(error_msg), now)
    IN OnException(b2, ref, task_id, error_msg, duration, now)

\* A variant of the incremental mean that weighs the old average by the new count.
UpdateAverageOverweighted(metrics, duration) ==
    LET total_successful == metrics.successful_tasks
        current_avg      == metrics.average_task_duration
    IN [metrics EXCEPT !.average_task_duration =
            Fraction(current_avg.num * total_successful + duration * current_avg.den,
                     current_avg.den * total_successful)]

\* _update_average_duration, called after successful_tasks was incremented.
_update_average_duration(metrics, duration) ==
    LET total_successful == metrics.successful_tasks
        current_avg      == metrics.average_task_duration
    IN [metrics EXCEPT !.average_task_duration =
            IF total_successful = 1 THEN Fraction(duration, 1)
            ELSE Fraction(current_avg.num * (total_successful - 1) + duration * current_avg.den,
                          current_avg.den * total_successful)]

\* result if isinstance(result, dict) else {"output": str(result)}
StoredResult(result) ==
    IF result.py_type = "dict" THEN result
    ELSE [py_type |-> "dict", value |-> <<"output", result.value>>]

\* A variant of the success path that counts the run in total_tasks only.
OnSuccessUncounted(b, ref, task_id, result, duration, now) ==
    LET b1 == [b EXCEPT !.heap[ref].status = "completed",
                        !.heap[ref].completed_at = Some(now),
                        !.heap[ref].result = Some(StoredResult(result))]
        b2 == _track_step(b1, "task_completed",
                          [duration |-> duration, result_type |-> result.py_type],
                          "completed", None, now)
        b3 == [b2 EXCEPT !.performance_metrics.total_tasks = @ + 1]
    IN [ backend |-> [b3 EXCEPT !.current_task = None],
         raised  |-> None,
         value   |-> Some([ task_id |-> task_id, status |-> "completed",
                            result |-> b3.heap[ref].result[1], duration |-> duration,
                            steps_count |-> Len(b3.heap[ref].steps) ]) ]

\* The executor returned within the timeout, then finally.
OnSuccess(b, ref, task_id, result, duration, now) ==
    LET b1 == [b EXCEPT !.heap[ref].status = "completed",
                        !.heap[ref].completed_at = Some(now),
                        !.heap[ref].result = Some(StoredResult(result))]
        b2 == _track_step(b1, "task_completed",
                          [duration |-> duration, result_type |-> result.py_type],
                          "completed", None, now)
        b3 == [b2 EXCEPT !.performance_metrics.total_tasks = @ + 1,
                         !.performance_metrics.successful_tasks = @ + 1]
        b4 == [b3 EXCEPT !.performance_metrics = _update_average_duration(@, duration)]
    IN [ backend |-> [b4 EXCEPT !.current_task = None],
         raised  |-> None,
         value   |-> Some([ task_id |-> task_id, status |-> "completed",
                            result |-> b4.heap[ref].result[1], duration |-> duration,
                            steps_count |-> Len(b4.heap[ref].steps) ]) ]

----------------------------------------------------------------------------
(* The calls on the manager *)

\* Each call starts from an empty record of observer calls.
Fresh(b) == [b EXCEPT !.emitted = <<>>, !.notified = <<>>]

\* time.time() and datetime.now() within one step read the same instant.
Tick == clock < horizon /\ clock' = clock + 1 /\ UNCHANGED <<horizon, retry, backoff, cache, race, vnc, configs, flow>>

\* Callers serialize their calls on one manager (serial), or do not.
MayCall(serial) == serial => calls = {}

MayRun(serial) == IF serial THEN calls = {} ELSE Cardinality(calls) < MaxInFlight

Returned(op, task_id, value, call) ==
    [op |-> op, task_id |-> task_id, raised |-> None, value |-> Some(value), call |-> call]

Raised(op, task_id, exception, call) ==
    [op |-> op, task_id |-> task_id, raised |-> Some(exception), value |-> None, call |-> call]

\* The most recent step suspended a run_task call at its await: nothing was returned.
Suspended(task_id, call) ==
    [op |-> "await", task_id |-> task_id, raised |-> None, value |-> None, call |-> call]

\* How a run_task call that reached its try block ended.
Ended(task_id, run, call) ==
    [op |-> "run_task", task_id |-> task_id, raised |-> run.raised, value |-> run.value,
     call |-> call]

\* What ret keeps of a call besides its result: the record stored under the id
\* when the call began, and for run_task the task object, the number of steps it
\* had and what the environment and the executor did.
CallInfo(b, task_id, now) ==
    [ n          |-> now,
      task_id    |-> task_id,
      before     |-> IF Known(b, task_id) THEN Some(TaskOf(b, task_id)) ELSE None,
      task       |-> IF Known(b, task_id) THEN b.tasks[task_id] ELSE 0,
      base       |-> IF Known(b, task_id) THEN Len(TaskOf(b, task_id).steps) ELSE 0,
      start_time |-> now,
      metrics    |-> b.performance_metrics,
      outcome    |-> "none",
      fault      |-> None ]

AddStepCallback(serial) ==
    /\ MayCall(serial)
    /\ Tick
    /\ \E callback \in ObserverKinds :
          backend' = add_step_callback(Fresh(backend), callback)
    /\ unobserved' = Fresh(unobserved)
    /\ ret' = Returned("add_step_callback", "", "None", CallInfo(backend, "", clock'))
    /\ UNCHANGED calls

CreateTask(serial) ==
    /\ MayCall(serial)
    /\ Tick
    /\ \E task_id \in TaskIds, description \in Descriptions :
          /\ backend' = create_task(Fresh(backend), task_id, description, clock')
          /\ unobserved' = create_task(Fresh(unobserved), task_id, description, clock')
          /\ ret' = Returned("create_task", task_id, Len(backend.heap) + 1,
                             CallInfo(backend, task_id, clock'))
    /\ UNCHANGED calls

\* if task_id not in self.tasks: raise ValueError(...), before the try.
RunTaskUnknown(serial) ==
    /\ MayRun(serial)
    /\ Tick
    /\ \E task_id \in TaskIds :
          /\ ~Known(backend, task_id)
          /\ ret' = Raised("run_task", task_id,
                           [type |-> "ValueError", message |-> NotFoundMessage(task_id)],
                           CallInfo(backend, task_id, clock'))
    /\ backend' = Fresh(backend)
    /\ unobserved' = Fresh(unobserved)
    /\ UNCHANGED calls

\* The environment is built and the coroutine suspends at await asyncio.wait_for(...).
RunTaskStart(serial) ==
    /\ MayRun(serial)
    /\ Tick
    /\ \E task_id \in TaskIds :
          /\ Known(backend, task_id)
          /\ backend' = BuildEnvironment(RunBegin(Fresh(backend), task_id, clock'), "ok", clock')
          /\ unobserved' =
                BuildEnvironment(RunBegin(Fresh(unobserved), task_id, clock'), "ok", clock')
          /\ calls' = calls \cup {CallInfo(backend, task_id, clock')}
          /\ ret' = Suspended(task_id, CallInfo(backend, task_id, clock'))

\* Building the environment raises: the call ends in the outer except, with
\* start_time not yet bound, so the duration is 0.
RunTaskEnvFault(serial) ==
    /\ MayRun(serial)
    /\ Tick
    /\ \E task_id \in TaskIds, env \in EnvOutcomes \ {"ok"} :
          /\ Known(backend, task_id)
          /\ LET info == [CallInfo(backend, task_id, clock') EXCEPT
                             !.outcome = env, !.fault = Some(EnvFaultMessage(env))]
                 run(b) == OnException(
                              BuildEnvironment(RunBegin(Fresh(b), task_id, clock'), env, clock'),
                              info.task, task_id, EnvFaultMessage(env), 0, clock')
             IN /\ backend' = run(backend).backend
                /\ unobserved' = run(unobserved).backend
                /\ ret' = Ended(task_id, run(backend), info)
    /\ UNCHANGED calls

\* agent.run() returns before the timeout.
RunTaskReturn ==
    /\ Tick
    /\ \E call \in calls, result \in ExecutorResults, duration \in Durations :
          /\ duration <= DefaultTimeout
          /\ LET info == [call EXCEPT !.outcome = "returned"]
                 run(b) == OnSuccess(Fresh(b), call.task, call.task_id, result, duration, clock')
             IN /\ backend' = run(backend).backend
                /\ unobserved' = run(unobserved).backend
                /\ ret' = Ended(call.task_id, run(backend), info)
          /\ calls' = calls \ {call}

\* asyncio.wait_for raises asyncio.TimeoutError when the timeout is over.
RunTaskTimeout ==
    /\ Tick
    /\ \E call \in calls :
          /\ LET info == [call EXCEPT !.outcome = "timeout"]
                 run(b) == OnTimeout(Fresh(b), call.task, call.task_id, DefaultTimeout, clock')
             IN /\ backend' = run(backend).backend
                /\ unobserved' = run(unobserved).backend
                /\ ret' = Ended(call.task_id, run(backend), info)
          /\ calls' = calls \ {call}

\* agent.run() raises.
RunTaskFault ==
    /\ Tick
    /\ \E call \in calls, error_msg \in ExecutorFaults, duration \in Durations :
          /\ LET info == [call EXCEPT !.outcome = "raised", !.fault = Some(error_msg)]
                 run(b) == OnException(Fresh(b), call.task, call.task_id, error_msg, duration,
                                       clock')
             IN /\ backend' = run(backend).backend
                /\ unobserved' = run(unobserved).backend
                /\ ret' = Ended(call.task_id, run(backend), info)
          /\ calls' = calls \ {call}

----------------------------------------------------------------------------
(* The backoff policy: calculate_retry_delay of src/automation_utils.py *)

\* A float is an exact fraction [num, den] with den > 0.
Float(n) == [num |-> n, den |-> 1]

Times(x, y) == Fraction(x.num * y.num, x.den * y.den)

Plus(x, y) == Fraction(x.num * y.den + y.num * x.den, x.den * y.den)

AtMost(x, y) == x.num * y.den <= y.num * x.den

\* min(x, y) of Python: y only when y < x.
Min(x, y) == IF AtMost(x, y) THEN x ELSE y

\* x ** n for an integer n >= 0.
RECURSIVE Power(_, _)
Power(x, n) == IF n <= 0 THEN Float(1) ELSE Times(x, Power(x, n - 1))

\* random.uniform(a, b) = a + (b - a) * random.random(), with random.random() = u.
Uniform(a, b, u) == Plus(a, Times(Plus(b, Times(Float(-1), a)), u))

\* What random.random() may return, as far as the model draws it.
RandomDraws == { Float(0), Fraction(1, 2), Float(1) }

RetryStrategies == {"linear", "exponential", "fibonacci", "random"}

\* RetryConfig with the defaults of the dataclass.
DefaultMaxAttempts == 3
DefaultMaxDelay == 60
DefaultMultiplier == 2

RetryConfig ==
    [ max_attempts        |-> DefaultMaxAttempts,
      base_delay          |-> Float(1),
      max_delay           |-> Float(DefaultMaxDelay),
      strategy            |-> "exponential",
      backoff_multiplier  |-> Float(DefaultMultiplier),
      jitter              |-> TRUE,
      retry_on_exceptions |-> {"Exception"} ]

\* list[i] of Python, for i >= 0.
Item(list, i) == list[i + 1]

\* fib_sequence after: for i in range(2, attempt + 1): fib_sequence.append(...)
RECURSIVE FibSequence(_, _, _)
FibSequence(fib_sequence, i, attempt) ==
    IF i >= attempt + 1 THEN fib_sequence
    ELSE FibSequence(Append(fib_sequence, Item(fib_sequence, i - 1) + Item(fib_sequence, i - 2)),
                     i + 1, attempt)

\* A variant of the strategy branches where EXPONENTIAL raises the multiplier to
\* the number of the attempt.
RawDelayExponentOfAttempt(attempt, config, u) ==
    CASE config.strategy = "linear" ->
           Times(config.base_delay, Float(attempt))
      [] config.strategy = "exponential" ->
           Times(config.base_delay, Power(config.backoff_multiplier, attempt))
      [] config.strategy = "fibonacci" ->
           Times(config.base_delay, Float(Item(FibSequence(<<1, 1>>, 2, attempt), attempt)))
      [] config.strategy = "random" ->
           Uniform(config.base_delay, Times(config.base_delay, Float(3)), u)
      [] OTHER -> config.base_delay

\* The if/elif chain of calculate_retry_delay: the delay before jitter and clamp.
\* u is the value random.random() returns for the RANDOM strategy.
RawDelay(attempt, config, u) ==
    CASE config.strategy = "linear" ->
           Times(config.base_delay, Float(attempt))
      [] config.strategy = "exponential" ->
           Times(config.base_delay, Power(config.backoff_multiplier, attempt - 1))
      [] config.strategy = "fibonacci" ->
           LET fib_sequence == FibSequence(<<1, 1>>, 2, attempt)
               last         == Len(fib_sequence) - 1
           IN Times(config.base_delay,
                    Float(Item(fib_sequence, IF attempt <= last THEN attempt ELSE last)))
      [] config.strategy = "random" ->
           Uniform(config.base_delay, Times(config.base_delay, Float(3)), u)
      [] OTHER -> config.base_delay

\* jitter_factor = random.uniform(0.8, 1.2), with random.random() = v.
JitterFactor(v) == Uniform(Fraction(4, 5), Fraction(6, 5), v)

\* A variant that clamps to max_delay before the jitter is applied.
DelayClampedBeforeJitter(attempt, config, u, v) ==
    LET delay == Min(RawDelay(attempt, config, u), config.max_delay)
    IN IF config.jitter THEN Times(delay, JitterFactor(v)) ELSE delay

\* calculate_retry_delay(attempt, config), with the values u and v of the two
\* calls of the random source.
calculate_retry_delay(attempt, config, u, v) ==
    LET delay    == RawDelay(attempt, config, u)
        jittered == IF config.jitter THEN Times(delay, JitterFactor(v)) ELSE delay
    IN Min(jittered, config.max_delay)

\* The policies calculate_retry_delay is called with.
DelayConfigs ==
    { [RetryConfig EXCEPT !.strategy = strategy, !.base_delay = base_delay,
                          !.backoff_multiplier = multiplier, !.max_delay = max_delay,
                          !.jitter = jitter] :
        strategy \in RetryStrategies, base_delay \in {Float(1), Fraction(1, 2)},
        multiplier \in {Float(DefaultMultiplier), Fraction(3, 2)},
        max_delay \in {Float(DefaultMaxDelay), Float(3)}, jitter \in BOOLEAN }

\* No call of calculate_retry_delay yet under this policy.
NoDelay(config) == [config |-> config, attempt |-> 0, u |-> Float(0), v |-> Float(0),
                    delay |-> None]

\* delay = calculate_retry_delay(attempt, config)
CalculateRetryDelay ==
    /\ \E attempt \in 1 .. MaxDelayAttempt, u \in RandomDraws, v \in RandomDraws :
          backoff' = [backoff EXCEPT
                         !.attempt = attempt, !.u = u, !.v = v,
                         !.delay = Some(calculate_retry_delay(attempt, backoff.config, u, v))]
    /\ UNCHANGED <<lifecycle, retry, cache, race, vnc, configs, flow>>

----------------------------------------------------------------------------
(* The retry wrappers: retry_async and retry_sync of src/automation_utils.py *)

\* The kinds of exception the wrapped function raises. CancelledError derives
\* from BaseException only.
FailureKinds == {"ConnectionError", "ValueError", "CancelledError"}

IsException(kind) == kind # "CancelledError"

\* except config.retry_on_exceptions as e
Caught(kind, retry_on_exceptions) ==
    \/ kind \in retry_on_exceptions
    \/ "Exception" \in retry_on_exceptions /\ IsException(kind)

\* The exception object raised by the invocation with this number.
Failure(kind, invocation) == [type |-> kind, invocation |-> invocation]

\* raise None: exceptions must derive from BaseException.
RaiseNone == [type |-> "TypeError", invocation |-> 0]

ReturnValues == {"done"}

\* The policies the wrappers are called with.
RetryConfigs ==
    { [RetryConfig EXCEPT !.max_attempts = n, !.strategy = strategy, !.jitter = jitter,
                          !.retry_on_exceptions = retry_on] :
        n \in -1 .. MaxAttempts, strategy \in {"linear", "fibonacci"}, jitter \in BOOLEAN,
        retry_on \in { {"Exception"}, {"ConnectionError"} } }

\* A call of the wrapper about to enter: for attempt in range(1, max_attempts + 1)
RetryCall(flavour, config) ==
    [ flavour        |-> flavour,
      config         |-> config,
      pc             |-> "for",
      attempt        |-> 0,
      last_exception |-> None,
      log            |-> <<>>,
      value          |-> None,
      raised         |-> None ]

Calls(call) == SelectSeq(call.log, LAMBDA event : event.what = "call")

Sleeps(call) == SelectSeq(call.log, LAMBDA event : event.what = "sleep")

Failures(call) == SelectSeq(call.log, LAMBDA event : event.what = "raise")

\* The head of the for loop: the next attempt invokes func, or the range is
\* exhausted and the statement after the loop runs: raise last_exception.
RetryAttempt ==
    /\ retry.pc = "for"
    /\ IF retry.attempt < retry.config.max_attempts
       THEN retry' = [retry EXCEPT
                         !.pc = "func",
                         !.attempt = @ + 1,
                         !.log = Append(@, [what |-> "call", attempt |-> retry.attempt + 1])]
       ELSE retry' = [retry EXCEPT
                         !.pc = "raised",
                         !.raised = IF retry.last_exception = None THEN Some(RaiseNone)
                                    ELSE retry.last_exception]
    /\ UNCHANGED <<lifecycle, backoff, cache, race, vnc, configs, flow>>

\* return func(*args, **kwargs)
RetryFuncReturns ==
    /\ retry.pc = "func"
    /\ \E value \in ReturnValues :
          retry' = [retry EXCEPT
                       !.pc = "returned",
                       !.value = Some(value),
                       !.log = Append(@, [what |-> "return", attempt |-> retry.attempt])]
    /\ UNCHANGED <<lifecycle, backoff, cache, race, vnc, configs, flow>>

\* A variant of the except clause that gives up one attempt early.
ExceptGivesUpEarly(call, e, delay) ==
    LET failed == [call EXCEPT !.log = Append(@, [what |-> "raise", attempt |-> call.attempt,
                                                  exception |-> e])]
    IN IF ~Caught(e.type, call.config.retry_on_exceptions)
       THEN [failed EXCEPT !.pc = "raised", !.raised = Some(e)]
       ELSE IF call.attempt >= call.config.max_attempts - 1
       THEN [failed EXCEPT !.pc = "raised", !.raised = Some(e), !.last_exception = Some(e)]
       ELSE [failed EXCEPT
                !.pc = "sleep",
                !.last_exception = Some(e),
                !.log = Append(@, [what |-> "sleep", attempt |-> call.attempt,
                                   delay |-> delay])]

\* A variant of the except clause that raises the first failure on exhaustion.
ExceptRaisesFirst(call, e, delay) ==
    LET failed == [call EXCEPT !.log = Append(@, [what |-> "raise", attempt |-> call.attempt,
                                                  exception |-> e])]
        first  == IF call.last_exception = None THEN Some(e) ELSE call.last_exception
    IN IF ~Caught(e.type, call.config.retry_on_exceptions)
       THEN [failed EXCEPT !.pc = "raised", !.raised = Some(e)]
       ELSE IF call.attempt = call.config.max_attempts
       THEN [failed EXCEPT !.pc = "raised", !.raised = first, !.last_exception = first]
       ELSE [failed EXCEPT
                !.pc = "sleep",
                !.last_exception = first,
                !.log = Append(@, [what |-> "sleep", attempt |-> call.attempt,
                                   delay |-> delay])]

\* A variant of the except clause that catches every exception.
ExceptCatchesAll(call, e, delay) ==
    LET failed == [call EXCEPT !.log = Append(@, [what |-> "raise", attempt |-> call.attempt,
                                                  exception |-> e])]
    IN IF call.attempt = call.config.max_attempts
       THEN [failed EXCEPT !.pc = "raised", !.raised = Some(e), !.last_exception = Some(e)]
       ELSE [failed EXCEPT
                !.pc = "sleep",
                !.last_exception = Some(e),
                !.log = Append(@, [what |-> "sleep", attempt |-> call.attempt,
                                   delay |-> delay])]

\* func raised e. The except clause, when it matches, stores the exception and
\* re-raises it on the last attempt or else logs the delay and sleeps; when it
\* does not match, the exception leaves the wrapper.
\* A variant of the except clause that goes on to the next attempt at once.
ExceptSkipsSleep(call, e, delay) ==
    LET failed == [call EXCEPT !.log = Append(@, [what |-> "raise", attempt |-> call.attempt,
                                                  exception |-> e])]
    IN IF ~Caught(e.type, call.config.retry_on_exceptions)
       THEN [failed EXCEPT !.pc = "raised", !.raised = Some(e)]
       ELSE IF call.attempt = call.config.max_attempts
       THEN [failed EXCEPT !.pc = "raised", !.raised = Some(e), !.last_exception = Some(e)]
       ELSE [failed EXCEPT !.pc = "for", !.last_exception = Some(e)]

Except(call, e, delay) ==
    LET failed == [call EXCEPT !.log = Append(@, [what |-> "raise", attempt |-> call.attempt,
                                                  exception |-> e])]
    IN IF ~Caught(e.type, call.config.retry_on_exceptions)
       THEN [failed EXCEPT !.pc = "raised", !.raised = Some(e)]
       ELSE IF call.attempt = call.config.max_attempts
       THEN [failed EXCEPT !.pc = "raised", !.raised = Some(e), !.last_exception = Some(e)]
       ELSE [failed EXCEPT
                !.pc = "sleep",
                !.last_exception = Some(e),
                !.log = Append(@, [what |-> "sleep", attempt |-> call.attempt,
                                   delay |-> delay])]

RetryFuncRaises ==
    /\ retry.pc = "func"
    /\ \E kind \in FailureKinds, u \in RandomDraws, v \in RandomDraws :
          retry' = Except(retry, Failure(kind, Len(Calls(retry))),
                          calculate_retry_delay(retry.attempt, retry.config, u, v))
    /\ UNCHANGED <<lifecycle, backoff, cache, race, vnc, configs, flow>>

\* await asyncio.sleep(delay), or time.sleep(delay), is over.
RetryWake ==
    /\ retry.pc = "sleep"
    /\ retry' = [retry EXCEPT !.pc = "for"]
    /\ UNCHANGED <<lifecycle, backoff, cache, race, vnc, configs, flow>>

----------------------------------------------------------------------------
(* The result cache: TaskCache of src/automation_utils.py *)

(***************************************************************************)
(* The Python values that are cached and that configs hold are of the JSON *)
(* types: a str is [str |-> s], any other scalar is [scalar |-> repr] and  *)
(* a dict is [dict |-> pairs], the <<key, value>> pairs in insertion       *)
(* order. A JSON text is the tree it denotes: [string |-> s],              *)
(* [literal |-> token] and [members |-> pairs] in the order of the text.   *)
(* A datetime is a number of hours.                                        *)
(***************************************************************************)
Str(s) == [str |-> s]

Scalar(repr) == [scalar |-> repr]

Dict(pairs) == [dict |-> pairs]

PyNone == Scalar("None")

IsDict(value) == "dict" \in DOMAIN value

IsStr(value) == "str" \in DOMAIN value

Keys(pairs) == { pairs[i][1] : i \in DOMAIN pairs }

\* d[key] of a dict with this key
ValueOf(pairs, key) == pairs[CHOOSE i \in DOMAIN pairs : pairs[i][1] = key][2]

\* The keys the configs of the model use, as sorted() orders them.
KeyOrder == <<"headless", "height", "width", "window_size">>

\* The items of a dict as json.dumps(..., sort_keys=True) walks them.
SortedItems(pairs) ==
    LET keys == SelectSeq(KeyOrder, LAMBDA key : key \in Keys(pairs))
    IN [i \in DOMAIN keys |-> <<keys[i], ValueOf(pairs, keys[i])>>]

\* The JSON token of a scalar, and back.
JsonLiteral(repr) ==
    CASE repr = "True" -> "true" [] repr = "False" -> "false" [] repr = "None" -> "null"
      [] OTHER -> repr

PyLiteral(token) ==
    CASE token = "true" -> "True" [] token = "false" -> "False" [] token = "null" -> "None"
      [] OTHER -> token

\* json.dumps(value, sort_keys=sort_keys)
RECURSIVE JsonDumps(_, _)
JsonDumps(value, sort_keys) ==
    IF IsDict(value)
    THEN LET items == IF sort_keys THEN SortedItems(value.dict) ELSE value.dict
         IN [members |-> [i \in DOMAIN items |->
                             <<items[i][1], JsonDumps(items[i][2], sort_keys)>>]]
    ELSE IF IsStr(value) THEN [string |-> value.str]
    ELSE [literal |-> JsonLiteral(value.scalar)]

\* json.load(f)
RECURSIVE JsonLoad(_)
JsonLoad(text) ==
    IF "members" \in DOMAIN text
    THEN Dict([i \in DOMAIN text.members |->
                  <<text.members[i][1], JsonLoad(text.members[i][2])>>])
    ELSE IF "string" \in DOMAIN text THEN Str(text.string)
    ELSE Scalar(PyLiteral(text.literal))

\* datetime.isoformat() and datetime.fromisoformat(), which raises ValueError
\* for a string that is no timestamp.
IsoFormat(time) == ToString(time)

IsIsoFormat(string) == \E time \in 0 .. MaxHours + 1 : IsoFormat(time) = string

FromIsoFormat(string) == CHOOSE time \in 0 .. MaxHours + 1 : IsoFormat(time) = string

\* The configs get and set are called with: two spellings of one config, whose
\* keys were inserted in different orders at both levels, and a different config.
ConfigA ==
    Dict(<< <<"headless", Scalar("True")>>,
            <<"window_size", Dict(<< <<"width", Scalar("1280")>>,
                                     <<"height", Scalar("720")>> >>)>> >>)

ConfigAReordered ==
    Dict(<< <<"window_size", Dict(<< <<"height", Scalar("720")>>,
                                     <<"width", Scalar("1280")>> >>)>>,
            <<"headless", Scalar("True")>> >>)

ConfigB ==
    Dict(<< <<"headless", Scalar("True")>>,
            <<"window_size", Dict(<< <<"width", Scalar("1280")>>,
                                     <<"height", Scalar("1080")>> >>)>> >>)

CacheConfigs == {ConfigA, ConfigAReordered, ConfigB}

\* The results that are cached: the envelopes run_task returns.
CacheResults ==
    { Dict(<< <<"status", Str("completed")>>, <<"duration", Scalar("2.0")>>,
              <<"result", Dict(<< <<"output", Str("done")>> >>)>> >>),
      Dict(<< <<"status", Str("failed")>>, <<"error", Str("connection refused")>>,
              <<"duration", Scalar("0")>> >>) }

\* The ttl_hours the cache of the model is constructed with (24 by default).
TtlHours == 1

\* TaskCache(ttl_hours=ttl_hours) on an empty directory, at hour 0.
TaskCache(ttl_hours) ==
    [ ttl   |-> ttl_hours,
      store |-> <<>>,
      now   |-> 0,
      ret   |-> [op |-> "__init__", description |-> "", config |-> Dict(<<>>),
                 value |-> PyNone, raised |-> None, before |-> None, now |-> 0] ]

\* A variant of the key that serializes the config in insertion order.
CacheKeyInsertionOrder(task_description, config) ==
    <<task_description, "_", JsonDumps(config, FALSE)>>

\* _get_cache_key: the md5 digest of the combined string, which stands for the
\* string itself (two strings have one digest only if they are equal).
_get_cache_key(task_description, config) ==
    <<task_description, "_", JsonDumps(config, TRUE)>>

\* A file of the directory: readable or not, holding a JSON text or not.
\* set_by keeps the arguments of the set call that wrote it.
JsonFile(text, set_by) == [kind |-> "json", text |-> text, set_by |-> set_by]

Unreadable == [kind |-> "unreadable", text |-> [literal |-> "null"], set_by |-> None]

Garbage == [kind |-> "garbage", text |-> [literal |-> "null"], set_by |-> None]

Without(store, key) == [k \in DOMAIN store \ {key} |-> store[k]]

With(store, key, file) == [k \in DOMAIN store \cup {key} |-> IF k = key THEN file ELSE store[k]]

\* The try block of get on an existing file: the exception it raises, or
\* whether it unlinks the file and what it returns.
ReadEntry(file, now, ttl) ==
    LET raises(type) == [raised |-> Some(type), unlink |-> FALSE, value |-> PyNone]
        cached_data  == JsonLoad(file.text)
        timestamp    == ValueOf(cached_data.dict, "timestamp")
    IN CASE file.kind = "unreadable" -> raises("PermissionError")
         [] file.kind = "garbage" -> raises("JSONDecodeError")
         [] ~IsDict(cached_data) -> raises("TypeError")
         [] "timestamp" \notin Keys(cached_data.dict) -> raises("KeyError")
         [] ~IsStr(timestamp) -> raises("TypeError")
         [] ~IsIsoFormat(timestamp.str) -> raises("ValueError")
         [] now - FromIsoFormat(timestamp.str) > ttl ->
              [raised |-> None, unlink |-> TRUE, value |-> PyNone]
         [] "result" \notin Keys(cached_data.dict) -> raises("KeyError")
         [] OTHER ->
              [raised |-> None, unlink |-> FALSE, value |-> ValueOf(cached_data.dict, "result")]

\* A variant of get without the except clause.
GetUnguarded(c, task_description, config) ==
    LET cache_key == _get_cache_key(task_description, config)
        read      == ReadEntry(c.store[cache_key], c.now, c.ttl)
    IN IF cache_key \notin DOMAIN c.store
       THEN [store |-> c.store, value |-> PyNone, raised |-> None]
       ELSE [store |-> IF read.unlink THEN Without(c.store, cache_key) ELSE c.store,
             value |-> read.value, raised |-> read.raised]

\* A variant of get that reports an expired entry as a miss and keeps its file.
GetKeepsExpired(c, task_description, config) ==
    LET cache_key == _get_cache_key(task_description, config)
        read      == ReadEntry(c.store[cache_key], c.now, c.ttl)
    IN IF cache_key \notin DOMAIN c.store
       THEN [store |-> c.store, value |-> PyNone, raised |-> None]
       ELSE [store |-> c.store, value |-> read.value, raised |-> None]

\* TaskCache.get: the store it leaves, what it returns and what it raises.
get(c, task_description, config) ==
    LET cache_key == _get_cache_key(task_description, config)
        read      == ReadEntry(c.store[cache_key], c.now, c.ttl)
    IN IF cache_key \notin DOMAIN c.store
       THEN [store |-> c.store, value |-> PyNone, raised |-> None]
       ELSE IF read.raised # None
       THEN [store |-> c.store, value |-> PyNone, raised |-> None]
       ELSE [store |-> IF read.unlink THEN Without(c.store, cache_key) ELSE c.store,
             value |-> read.value, raised |-> None]

\* TaskCache.set: cached_data is dumped to the file of the key.
set(c, task_description, config, result) ==
    LET cache_key   == _get_cache_key(task_description, config)
        cached_data == Dict(<< <<"timestamp", Str(IsoFormat(c.now))>>,
                               <<"task_description", Str(task_description)>>,
                               <<"config", config>>,
                               <<"result", result>> >>)
        set_by      == [task_description |-> task_description, config |-> config,
                        result |-> result, now |-> c.now]
    IN [store  |-> With(c.store, cache_key, JsonFile(JsonDumps(cached_data, FALSE), Some(set_by))),
        value  |-> PyNone,
        raised |-> None]

\* The file under a key, if there is one.
FileAt(store, key) == IF key \in DOMAIN store THEN Some(store[key]) ELSE None

\* What cache.ret keeps of a call until the clock moves: its arguments, its
\* result, the hour and the file that was under the key of the arguments before.
CacheCall(op, task_description, config, c, done) ==
    [c EXCEPT !.store = done.store,
              !.ret = [op |-> op, description |-> task_description, config |-> config,
                       value |-> done.value, raised |-> done.raised,
                       before |-> FileAt(c.store, _get_cache_key(task_description, config)),
                       now |-> c.now]]

CacheSet ==
    /\ \E task_description \in Descriptions, config \in CacheConfigs, result \in CacheResults :
          cache' = CacheCall("set", task_description, config, cache,
                             set(cache, task_description, config, result))
    /\ UNCHANGED <<lifecycle, retry, backoff, race, vnc, configs, flow>>

CacheGet ==
    /\ \E task_description \in Descriptions, config \in CacheConfigs :
          cache' = CacheCall("get", task_description, config, cache,
                             get(cache, task_description, config))
    /\ UNCHANGED <<lifecycle, retry, backoff, race, vnc, configs, flow>>

\* An hour passes.
CacheElapse ==
    /\ cache.now < MaxHours
    /\ cache' = [cache EXCEPT !.now = @ + 1, !.ret = TaskCache(TtlHours).ret]
    /\ UNCHANGED <<lifecycle, retry, backoff, race, vnc, configs, flow>>

\* The body of the loop of clear_expired for one file: whether the file is
\* unlinked, in the try block when it is expired or in the except clause when
\* reading it raised.
SweptAway(file, now, ttl) ==
    LET cached_data == JsonLoad(file.text)
        timestamp   == ValueOf(cached_data.dict, "timestamp")
    IN CASE file.kind = "unreadable" -> TRUE
         [] file.kind = "garbage" -> TRUE
         [] ~IsDict(cached_data) -> TRUE
         [] "timestamp" \notin Keys(cached_data.dict) -> TRUE
         [] ~IsStr(timestamp) -> TRUE
         [] ~IsIsoFormat(timestamp.str) -> TRUE
         [] OTHER -> now - FromIsoFormat(timestamp.str) > ttl

\* TaskCache.clear_expired, called while nothing else touches the directory.
clear_expired(c) ==
    LET kept == { key \in DOMAIN c.store : ~SweptAway(c.store[key], c.now, c.ttl) }
    IN [store |-> [key \in kept |-> c.store[key]], value |-> PyNone, raised |-> None]

CacheSweep ==
    /\ LET done == clear_expired(cache)
       IN cache' = [cache EXCEPT
                       !.store = done.store,
                       !.ret = [op |-> "clear_expired", description |-> "",
                                config |-> Dict(<<>>), value |-> done.value,
                                raised |-> done.raised, before |-> None, now |-> cache.now]]
    /\ UNCHANGED <<lifecycle, retry, backoff, race, vnc, configs, flow>>

\* The files something other than set may leave under a key: an unreadable
\* file, a text that is no JSON, a JSON text that is no object, and objects
\* without timestamp, with a timestamp that is none and without result.
DamagedFiles(now) ==
    { Unreadable, Garbage,
      JsonFile([literal |-> "null"], None),
      JsonFile([members |-> << <<"result", [string |-> "stale"]>> >>], None),
      JsonFile([members |-> << <<"timestamp", [string |-> "yesterday"]>>,
                               <<"result", [string |-> "stale"]>> >>], None),
      JsonFile([members |-> << <<"timestamp", [string |-> IsoFormat(now)]>> >>], None) }

\* A file of the directory is replaced by a damaged one.
CacheDamage ==
    /\ \E task_description \in Descriptions, config \in {ConfigA, ConfigB},
          file \in DamagedFiles(cache.now) :
          cache' = CacheCall("damage", task_description, config, cache,
                             [store  |-> With(cache.store,
                                              _get_cache_key(task_description, config), file),
                              value  |-> PyNone,
                              raised |-> None])
    /\ UNCHANGED <<lifecycle, retry, backoff, race, vnc, configs, flow>>

----------------------------------------------------------------------------
(* Concurrent calls on one cache file *)

(***************************************************************************)
(* Several processes or threads call set, get and clear_expired for one    *)
(* key. The directory entry of the key names an inode or nothing; a text   *)
(* is the sequence of its blocks, each tagged with the set call that wrote *)
(* it (0 is a set that returned before the calls of the model began). A    *)
(* set opens the file, which creates or truncates it, and the buffered     *)
(* text reaches the inode in one write at offset 0 when the file is        *)
(* closed. The clock does not move while the calls run.                    *)
(***************************************************************************)

\* The size of a JSON text, in blocks.
RECURSIVE TextSize(_), MembersSize(_)
TextSize(text) ==
    IF "members" \in DOMAIN text THEN 2 + MembersSize(text.members) ELSE 1

MembersSize(members) ==
    IF members = <<>> THEN 0
    ELSE 1 + TextSize(Head(members)[2]) + MembersSize(Tail(members))

\* The blocks set call w writes for this result.
TextOf(w, result) ==
    LET file == set(TaskCache(TtlHours), "open the page", ConfigA, result).store
        text == file[_get_cache_key("open the page", ConfigA)].text
    IN [i \in 1 .. TextSize(text) |-> w]

\* write(2) of data at offset 0 of an inode that holds old.
WriteAtStart(old, data) ==
    IF Len(data) >= Len(old) THEN data ELSE data \o SubSeq(old, Len(data) + 1, Len(old))

\* The files the key may name when the calls begin: none, or an entry that an
\* earlier set wrote, by now expired or not.
EarlierEntries ==
    { None } \cup { Some([result |-> result, expired |-> expired]) :
                      result \in CacheResults, expired \in BOOLEAN }

StartOfRace(earlier) ==
    [ earlier  |-> earlier,
      dir      |-> IF earlier = None THEN None ELSE Some(1),
      inodes   |-> IF earlier = None THEN <<>> ELSE <<TextOf(0, earlier[1].result)>>,
      calls    |-> <<>>,
      finished |-> <<>> ]

NoRace == StartOfRace(None)

\* The entry json.load yields from the inode, if its text is the whole text of
\* one set call and nothing else.
WholeEntry(r, inode) ==
    LET text    == r.inodes[inode]
        writers == { w \in DOMAIN r.calls : r.calls[w].op = "set" /\ text = TextOf(w, r.calls[w].result) }
    IN IF text = <<>> THEN None
       ELSE IF r.earlier # None /\ text = TextOf(0, r.earlier[1].result) THEN r.earlier
       ELSE IF writers # {} THEN Some([result |-> r.calls[CHOOSE w \in writers : TRUE].result,
                                        expired |-> FALSE])
       ELSE None

Begun(op, result) == [op |-> op, pc |-> "begin", result |-> result, inode |-> 0,
                      value |-> PyNone, raised |-> None]

Finish(r, w, value, raised) ==
    [r EXCEPT !.calls[w].pc = "done", !.calls[w].value = value, !.calls[w].raised = raised,
              !.finished = Append(@, w)]

\* A process calls set, get or clear_expired.
RaceBegin ==
    /\ Len(race.calls) < MaxRacers
    /\ \E call \in { Begun("set", result) : result \in CacheResults }
                   \cup { Begun("get", PyNone), Begun("clear_expired", PyNone) } :
          race' = [race EXCEPT !.calls = Append(@, call)]
    /\ UNCHANGED <<lifecycle, retry, backoff, cache, vnc, configs, flow>>

\* set: with open(cache_file, 'w') as f
RaceSetOpen ==
    /\ \E w \in DOMAIN race.calls :
          /\ race.calls[w].op = "set" /\ race.calls[w].pc = "begin"
          /\ IF race.dir = None
             THEN race' = [race EXCEPT !.inodes = Append(@, <<>>),
                                       !.dir = Some(Len(race.inodes) + 1),
                                       !.calls[w].inode = Len(race.inodes) + 1,
                                       !.calls[w].pc = "dump"]
             ELSE race' = [race EXCEPT !.inodes[race.dir[1]] = <<>>,
                                       !.calls[w].inode = race.dir[1],
                                       !.calls[w].pc = "dump"]
    /\ UNCHANGED <<lifecycle, retry, backoff, cache, vnc, configs, flow>>

\* set: json.dump(cached_data, f, ...) and the close of the file
RaceSetDump ==
    /\ \E w \in DOMAIN race.calls :
          /\ race.calls[w].op = "set" /\ race.calls[w].pc = "dump"
          /\ LET inode == race.calls[w].inode
                 r     == [race EXCEPT !.inodes[inode] =
                                         WriteAtStart(@, TextOf(w, race.calls[w].result))]
             IN race' = Finish(r, w, PyNone, None)
    /\ UNCHANGED <<lifecycle, retry, backoff, cache, vnc, configs, flow>>

\* get: if not cache_file.exists(): return None
RaceGetExists ==
    /\ \E w \in DOMAIN race.calls :
          /\ race.calls[w].op = "get" /\ race.calls[w].pc = "begin"
          /\ race' = IF race.dir = None THEN Finish(race, w, PyNone, None)
                     ELSE [race EXCEPT !.calls[w].pc = "read"]
    /\ UNCHANGED <<lifecycle, retry, backoff, cache, vnc, configs, flow>>

\* get: open, json.load, the expiry test and return cached_data['result']; every
\* exception ends in the except clause, which returns None.
RaceGetRead ==
    /\ \E w \in DOMAIN race.calls :
          /\ race.calls[w].op = "get" /\ race.calls[w].pc = "read"
          /\ LET entry == IF race.dir = None THEN None ELSE WholeEntry(race, race.dir[1])
             IN race' = IF entry = None THEN Finish(race, w, PyNone, None)
                        ELSE IF entry[1].expired THEN [race EXCEPT !.calls[w].pc = "unlink"]
                        ELSE Finish(race, w, entry[1].result, None)
    /\ UNCHANGED <<lifecycle, retry, backoff, cache, vnc, configs, flow>>

\* get: cache_file.unlink(); return None. FileNotFoundError is caught.
RaceGetUnlink ==
    /\ \E w \in DOMAIN race.calls :
          /\ race.calls[w].op = "get" /\ race.calls[w].pc = "unlink"
          /\ race' = Finish([race EXCEPT !.dir = None], w, PyNone, None)
    /\ UNCHANGED <<lifecycle, retry, backoff, cache, vnc, configs, flow>>

\* clear_expired: for cache_file in self.cache_dir.glob("*.json")
RaceSweepGlob ==
    /\ \E w \in DOMAIN race.calls :
          /\ race.calls[w].op = "clear_expired" /\ race.calls[w].pc = "begin"
          /\ race' = IF race.dir = None THEN Finish(race, w, PyNone, None)
                     ELSE [race EXCEPT !.calls[w].pc = "read"]
    /\ UNCHANGED <<lifecycle, retry, backoff, cache, vnc, configs, flow>>

\* clear_expired: open, json.load and the expiry test of the try block
RaceSweepRead ==
    /\ \E w \in DOMAIN race.calls :
          /\ race.calls[w].op = "clear_expired" /\ race.calls[w].pc = "read"
          /\ LET entry == IF race.dir = None THEN None ELSE WholeEntry(race, race.dir[1])
             IN race' = IF entry = None THEN [race EXCEPT !.calls[w].pc = "except"]
                        ELSE IF entry[1].expired THEN [race EXCEPT !.calls[w].pc = "unlink"]
                        ELSE Finish(race, w, PyNone, None)
    /\ UNCHANGED <<lifecycle, retry, backoff, cache, vnc, configs, flow>>

\* clear_expired: cache_file.unlink() in the try block; FileNotFoundError is an
\* Exception and goes to the except clause.
RaceSweepUnlink ==
    /\ \E w \in DOMAIN race.calls :
          /\ race.calls[w].op = "clear_expired" /\ race.calls[w].pc = "unlink"
          /\ race' = IF race.dir = None THEN [race EXCEPT !.calls[w].pc = "except"]
                     ELSE Finish([race EXCEPT !.dir = None], w, PyNone, None)
    /\ UNCHANGED <<lifecycle, retry, backoff, cache, vnc, configs, flow>>

\* clear_expired: the except clause, cache_file.unlink(), which nothing guards.
SweepExcept(r, w) ==
    IF r.dir = None THEN Finish(r, w, PyNone, Some("FileNotFoundError"))
    ELSE Finish([r EXCEPT !.dir = None], w, PyNone, None)

RaceSweepExcept ==
    /\ \E w \in DOMAIN race.calls :
          /\ race.calls[w].op = "clear_expired" /\ race.calls[w].pc = "except"
          /\ race' = SweepExcept(race, w)
    /\ UNCHANGED <<lifecycle, retry, backoff, cache, vnc, configs, flow>>

----------------------------------------------------------------------------
(* The process supervisor of the display stack: VNCManager *)

(***************************************************************************)
(* The supervisor and the process table of the host. A process has the     *)
(* name and the command line psutil reports, and the display it serves.    *)
(* The table is in pid order, the order of psutil.process_iter; a process  *)
(* that has exited stays in the sequence as not alive, and no scan lists   *)
(* it. The calls on one supervisor follow one another; a call runs in      *)
(* steps, one for each stage.                                              *)
(***************************************************************************)

\* The stages in the order start() takes them, and the ones whose failure
\* start() raises for.
Stages == <<"Xvfb", "fluxbox", "x11vnc", "websockify">>

HardStages == {"Xvfb", "x11vnc"}

\* The handles in the order of the list in stop().
StopOrder == <<"websockify", "x11vnc", "fluxbox", "Xvfb">>

\* VNCManager(): display, str(port), str(websockify_port); and the display of
\* another supervisor on the host.
Display == ":1"

Port == "5901"

WebsockifyPort == "6080"

ForeignDisplay == ":10"

\* The cmd lists of start_xvfb, start_fluxbox, start_vnc_server and
\* start_websockify, for the ports of VNCManager().
Command(stage, display) ==
    CASE stage = "Xvfb" ->
           <<"Xvfb", display, "-screen", "0", "1920x1080x24", "-ac", "+extension", "GLX",
             "+render", "-noreset">>
      [] stage = "fluxbox" -> <<"fluxbox">>
      [] stage = "x11vnc" ->
           <<"x11vnc", "-forever", "-usepw", "-shared", "-display", display, "-rfbport", Port>>
      [] stage = "websockify" -> <<"websockify", WebsockifyPort, "localhost:5901">>

\* str.lower() of a word of a command line.
Lower(word) == IF word = "Xvfb" THEN "xvfb" ELSE IF word = "GLX" THEN "glx" ELSE word

\* needle in ' '.join(cmdline), for the needles the supervisor looks for: the
\* words of the command lines that hold a needle as a proper part.
Substrings(word) ==
    CASE word = "localhost:5901" -> {"localhost:5901", "5901"}
      [] word = ":10" -> {":10", ":1"}
      [] OTHER -> {word}

InCmdline(needle, cmdline, lowered) ==
    \E i \in DOMAIN cmdline :
        needle \in Substrings(IF lowered THEN Lower(cmdline[i]) ELSE cmdline[i])

\* A live process of the stage, for the display.
Process(stage, display, ours) ==
    [name |-> stage, cmdline |-> Command(stage, display), display |-> display,
     alive |-> TRUE, ours |-> ours]

\* A call: what it returned or raised, the processes it spawned, signalled
\* and killed in order, the values its stages' starts returned, and whether
\* one of its scans of the process table met a fault.
NoCall == [op |-> "__init__", value |-> PyNone, raised |-> None, log |-> <<>>,
           ok |-> <<>>, undecided |-> FALSE]

Call(op) == [NoCall EXCEPT !.op = op]

\* VNCManager() on a host with this process table.
VNCManager(table) ==
    [ handles |-> [stage \in Range(Stages) |-> None],
      table   |-> table,
      pc      |-> <<"idle", 0>>,
      call    |-> NoCall,
      history |-> <<>>,
      faults  |-> 0 ]

\* The process tables the supervisor may be constructed on: none of the
\* stages runs, an earlier supervisor of the display left some of its stages,
\* or the display server of another display runs.
Tables ==
    { <<>>,
      <<Process("Xvfb", ForeignDisplay, FALSE)>>,
      <<Process("websockify", Display, FALSE)>>,
      [i \in 1 .. 4 |-> Process(Stages[i], Display, FALSE)] }

\* What a scan of the process table meets: nothing untoward, or an exception
\* that is neither NoSuchProcess nor AccessDenied before any match.
Scans == {"ok", "fault"}

\* A variant of the probe that lets the exception of a scan escape.
ProbeUnguarded(table, process_name, identifier, scan) ==
    IF scan = "fault" THEN [value |-> FALSE, raised |-> Some("AttributeError")]
    ELSE [value  |-> \E pid \in DOMAIN table :
                        /\ table[pid].alive
                        /\ Lower(process_name) \in Substrings(Lower(table[pid].name))
                        /\ identifier # None => InCmdline(identifier[1], table[pid].cmdline, FALSE),
          raised |-> None]

\* _is_process_running(process_name, identifier): the value returned and the
\* exception raised, which is none: except Exception returns False.
_is_process_running(table, process_name, identifier, scan) ==
    IF scan = "fault" THEN [value |-> FALSE, raised |-> None]
    ELSE [value  |-> \E pid \in DOMAIN table :
                        /\ table[pid].alive
                        /\ Lower(process_name) \in Substrings(Lower(table[pid].name))
                        /\ identifier # None => InCmdline(identifier[1], table[pid].cmdline, FALSE),
          raised |-> None]

\* is_xvfb_running, is_fluxbox_running, is_vnc_running, is_websockify_running
IsRunning(table, stage, scan) ==
    CASE stage = "Xvfb"       -> _is_process_running(table, "Xvfb", Some(Display), scan)
      [] stage = "fluxbox"    -> _is_process_running(table, "fluxbox", None, scan)
      [] stage = "x11vnc"     -> _is_process_running(table, "x11vnc", Some(Port), scan)
      [] stage = "websockify" -> _is_process_running(table, "websockify", Some(WebsockifyPort), scan)

\* What becomes of subprocess.Popen(cmd) by the time of poll(): the process
\* runs, it has exited, or Popen raised.
SpawnOutcomes == {"runs", "exited", "raises"}

\* The faults of the host in one step: a scan that meets a fault, a spawn
\* that does not end in a running process.
Faults(scan, outcome) ==
    (IF scan = "fault" THEN 1 ELSE 0) + (IF outcome = "runs" THEN 0 ELSE 1)

\* A variant of a stage's start that does not ask the probe.
StartStageUnprobed(v, stage, scan, outcome) ==
    IF outcome = "raises" THEN [v |-> v, ok |-> FALSE, spawned |-> FALSE]
    ELSE LET process == [Process(stage, Display, TRUE) EXCEPT !.alive = (outcome = "runs")]
             pid     == Len(v.table) + 1
         IN [v |-> [v EXCEPT !.table = Append(@, process),
                             !.handles[stage] = Some(pid),
                             !.call.log = Append(@, <<"spawn", pid>>)],
             ok |-> outcome = "runs", spawned |-> TRUE]

\* start_xvfb, start_fluxbox, start_vnc_server, start_websockify: the
\* supervisor afterwards and the value returned.
StartStage(v, stage, scan, outcome) ==
    IF IsRunning(v.table, stage, scan).raised # None THEN [v |-> v, ok |-> FALSE, spawned |-> FALSE]
    ELSE IF IsRunning(v.table, stage, scan).value THEN [v |-> v, ok |-> TRUE, spawned |-> FALSE]
    ELSE IF outcome = "raises" THEN [v |-> v, ok |-> FALSE, spawned |-> FALSE]
    ELSE LET process == [Process(stage, Display, TRUE) EXCEPT !.alive = (outcome = "runs")]
             pid     == Len(v.table) + 1
         IN [v |-> [v EXCEPT !.table = Append(@, process),
                             !.handles[stage] = Some(pid),
                             !.call.log = Append(@, <<"spawn", pid>>)],
             ok |-> outcome = "runs", spawned |-> TRUE]

\* The end of start(), stop() or restart().
Return(v, value, raised) ==
    LET call == [v.call EXCEPT !.value = value, !.raised = raised]
    IN [v EXCEPT !.pc = <<"idle", 0>>, !.call = call,
                 !.history = Append(@, [call EXCEPT !.log = SelectSeq(@, LAMBDA e : e[1] = "spawn")])]

MayCallSupervisor == vnc.pc[1] = "idle" /\ Len(vnc.history) < MaxSupervisorCalls

\* start(), stop() and restart() are called.
SupervisorStart ==
    /\ MayCallSupervisor
    /\ vnc' = [vnc EXCEPT !.pc = <<"start", 1>>, !.call = Call("start")]
    /\ UNCHANGED <<lifecycle, retry, backoff, cache, race, configs, flow>>

SupervisorStop ==
    /\ MayCallSupervisor
    /\ \E op \in {"stop", "restart"} :
          vnc' = [vnc EXCEPT !.pc = <<"stop", 1>>, !.call = Call(op)]
    /\ UNCHANGED <<lifecycle, retry, backoff, cache, race, configs, flow>>

\* A variant of start() that does not raise for a hard stage.
AfterStageLenient(v, i, ok) ==
    IF i = Len(Stages) THEN Return(v, Scalar("True"), None)
    ELSE [v EXCEPT !.pc = <<"start", i + 1>>]

\* start(): what follows the call of the i-th stage's start.
AfterStage(v, i, ok) ==
    IF ~ok /\ Stages[i] \in HardStages
    THEN Return(v, PyNone, Some(<<"Exception", "Failed to start", Stages[i]>>))
    ELSE IF i = Len(Stages) THEN Return(v, Scalar("True"), None)
    ELSE [v EXCEPT !.pc = <<"start", i + 1>>]

\* start(): one stage of the chain.
SupervisorStartStage ==
    /\ vnc.pc[1] = "start"
    /\ \E scan \in Scans, outcome \in SpawnOutcomes :
          LET i      == vnc.pc[2]
              after  == StartStage(vnc, Stages[i], scan, outcome)
              marked == [after.v EXCEPT !.call.ok = Append(@, after.ok),
                                        !.call.undecided = @ \/ scan = "fault",
                                        !.faults = @ + Faults(scan, outcome)]
          IN /\ vnc.faults + Faults(scan, outcome) <= MaxFaults
             /\ outcome # "runs" => ~IsRunning(vnc.table, Stages[i], scan).value
             /\ vnc' = AfterStage(marked, i, after.ok)
    /\ UNCHANGED <<lifecycle, retry, backoff, cache, race, configs, flow>>

\* stop(): the handle whose turn it is, if process and process.poll() is None.
LiveHandle(v, i) ==
    LET handle == v.handles[StopOrder[i]]
    IN IF handle # None /\ v.table[handle[1]].alive THEN handle ELSE None

\* stop(): process.terminate() for the handle whose turn it is.
SupervisorTerminate ==
    /\ vnc.pc[1] = "stop" /\ vnc.pc[2] <= Len(StopOrder)
    /\ LET i      == vnc.pc[2]
           handle == LiveHandle(vnc, i)
       IN vnc' = IF handle = None THEN [vnc EXCEPT !.pc = <<"stop", i + 1>>]
                 ELSE [vnc EXCEPT !.pc = <<"wait", i>>,
                                  !.call.log = Append(@, <<"terminate", handle[1]>>)]
    /\ UNCHANGED <<lifecycle, retry, backoff, cache, race, configs, flow>>

\* stop(): process.wait(timeout=5) returns, the process has exited.
SupervisorWaitExited ==
    /\ vnc.pc[1] = "wait"
    /\ LET i   == vnc.pc[2]
           pid == vnc.handles[StopOrder[i]][1]
       IN vnc' = [vnc EXCEPT !.table[pid].alive = FALSE,
                             !.call.log = Append(@, <<"exited", pid>>),
                             !.pc = <<"stop", i + 1>>]
    /\ UNCHANGED <<lifecycle, retry, backoff, cache, race, configs, flow>>

\* A variant of the handler of TimeoutExpired that leaves the process alone.
OnTimeoutExpiredGiveUp(v, i) ==
    [v EXCEPT !.pc = <<"stop", i + 1>>]

\* A variant of the handler of TimeoutExpired that waits for the process again.
OnTimeoutExpiredWaitsOn(v, i) == v

\* stop(): except subprocess.TimeoutExpired: process.kill()
OnTimeoutExpired(v, i) ==
    LET pid == v.handles[StopOrder[i]][1]
    IN [v EXCEPT !.table[pid].alive = FALSE,
                 !.call.log = Append(@, <<"kill", pid>>),
                 !.pc = <<"stop", i + 1>>]

\* stop(): process.wait(timeout=5) raises TimeoutExpired, the process has
\* not exited within the five seconds.
SupervisorWaitTimeout ==
    /\ vnc.pc[1] = "wait"
    /\ vnc' = OnTimeoutExpired(vnc, vnc.pc[2])
    /\ UNCHANGED <<lifecycle, retry, backoff, cache, race, configs, flow>>

\* kill_remaining_processes: the processes the scan kills, in pid order. A
\* scan that meets a fault ends there, here before the first process.
Matches(process) ==
    /\ process.alive
    /\ \E keyword \in {"x11vnc", "xvfb", "fluxbox", "websockify"} :
          InCmdline(keyword, process.cmdline, TRUE)
    /\ InCmdline(Display, process.cmdline, FALSE)

RECURSIVE kill_remaining_processes(_, _, _)
kill_remaining_processes(v, pid, scanned) ==
    IF pid > scanned THEN v
    ELSE IF Matches(v.table[pid])
    THEN kill_remaining_processes([v EXCEPT !.table[pid].alive = FALSE,
                                            !.call.log = Append(@, <<"kill", pid>>)],
                                  pid + 1, scanned)
    ELSE kill_remaining_processes(v, pid + 1, scanned)

\* stop(): self.kill_remaining_processes() and the return; restart() goes on
\* with start().
SupervisorSweep ==
    /\ vnc.pc[1] = "stop" /\ vnc.pc[2] > Len(StopOrder)
    /\ \E scan \in Scans :
          LET scanned == IF scan = "fault" THEN 0 ELSE Len(vnc.table)
              swept   == [kill_remaining_processes(vnc, 1, scanned)
                            EXCEPT !.call.undecided = @ \/ scan = "fault",
                                   !.faults = @ + Faults(scan, "runs")]
          IN /\ vnc.faults + Faults(scan, "runs") <= MaxFaults
             /\ vnc' = IF vnc.call.op = "restart" THEN [swept EXCEPT !.pc = <<"start", 1>>]
                       ELSE Return(swept, PyNone, None)
    /\ UNCHANGED <<lifecycle, retry, backoff, cache, race, configs, flow>>

\* bool as a value of Python
Bool(b) == IF b THEN Scalar("True") ELSE Scalar("False")

\* get_status()
get_status(table, scan) ==
    [ value  |-> Dict(<< <<"running", Bool(IsRunning(table, "x11vnc", scan).value)>>,
                         <<"display", Str(Display)>>,
                         <<"components",
                           Dict([i \in DOMAIN Stages |->
                                   <<Stages[i], Bool(IsRunning(table, Stages[i], scan).value)>>])>> >>),
      raised |-> IsRunning(table, "x11vnc", scan).raised ]

\* A liveness probe or get_status() is called and returns.
SupervisorProbe ==
    /\ vnc.pc[1] = "idle"
    /\ \E scan \in Scans, op \in Range(Stages) \cup {"get_status"} :
          LET probe    == IsRunning(vnc.table, op, scan)
              returned == IF op = "get_status" THEN get_status(vnc.table, scan)
                          ELSE [value |-> Bool(probe.value), raised |-> probe.raised]
          IN /\ vnc.faults + Faults(scan, "runs") <= MaxFaults
             /\ vnc' = [vnc EXCEPT !.call = [Call(op) EXCEPT !.value = returned.value,
                                                               !.raised = returned.raised,
                                                               !.undecided = (scan = "fault")],
                                     !.faults = @ + Faults(scan, "runs")]
    /\ UNCHANGED <<lifecycle, retry, backoff, cache, race, configs, flow>>

----------------------------------------------------------------------------
(* Configurations: src/automation_configs.py and _load_config of agents.py *)

(***************************************************************************)
(* A dict of Python is an object: a name, an item of another dict and an   *)
(* argument hold a reference to it. The heap is the sequence of the dict   *)
(* objects, each the sequence of its items in insertion order; an item's   *)
(* value is a string, a scalar or the reference of a dict of the heap.     *)
(***************************************************************************)

Ref(address) == [ref |-> address]

IsRef(value) == "ref" \in DOMAIN value

\* d[key] = value: a key the dict has keeps its place, a new key goes last.
SetItem(pairs, key, value) ==
    IF key \in Keys(pairs)
    THEN [i \in DOMAIN pairs |-> IF pairs[i][1] = key THEN <<key, value>> ELSE pairs[i]]
    ELSE Append(pairs, <<key, value>>)

\* d.update(other)
RECURSIVE Update(_, _)
Update(pairs, other) ==
    IF other = <<>> THEN pairs
    ELSE Update(SetItem(pairs, Head(other)[1], Head(other)[2]), Tail(other))

\* A dict display evaluated: the dicts of its items are created first, in order.
RECURSIVE Store(_, _), StoreItems(_, _, _)
Store(heap, value) ==
    IF IsDict(value)
    THEN LET items == StoreItems(heap, value.dict, <<>>)
         IN [heap |-> Append(items.heap, items.pairs), value |-> Ref(Len(items.heap) + 1)]
    ELSE [heap |-> heap, value |-> value]

StoreItems(heap, pairs, done) ==
    IF pairs = <<>> THEN [heap |-> heap, pairs |-> done]
    ELSE LET item == Store(heap, Head(pairs)[2])
         IN StoreItems(item.heap, Tail(pairs), Append(done, <<Head(pairs)[1], item.value>>))

\* What a reference stands for: the dict with the dicts of its items, as a value.
RECURSIVE ValueAt(_, _)
ValueAt(heap, value) ==
    IF IsRef(value)
    THEN Dict([i \in DOMAIN heap[value.ref] |->
                 <<heap[value.ref][i][1], ValueAt(heap, heap[value.ref][i][2])>>])
    ELSE value

ConfigNames == {"fast_automation", "visual_automation"}

\* The entries of CONFIG_TEMPLATES, with the items of browser_config the
\* callers of the repository read or write.
TemplateLiteral(config_name) ==
    IF config_name = "fast_automation"
    THEN Dict(<< <<"name", Str("Fast Automation")>>,
                 <<"description", Str("Optimized for speed with minimal visual feedback")>>,
                 <<"browser_config",
                   Dict(<< <<"headless", Scalar("True")>>,
                           <<"window_size", Dict(<< <<"width", Scalar("1280")>>,
                                                    <<"height", Scalar("720")>> >>)>> >>)>> >>)
    ELSE Dict(<< <<"name", Str("Visual Automation")>>,
                 <<"description", Str("Full visual feedback for debugging and demonstration")>>,
                 <<"browser_config",
                   Dict(<< <<"headless", Scalar("False")>>,
                           <<"window_size", Dict(<< <<"width", Scalar("1920")>>,
                                                    <<"height", Scalar("1080")>> >>)>> >>)>> >>)

\* The heap when the module automation_configs has been imported.
ImportedFast == Store(<<>>, TemplateLiteral("fast_automation"))

ImportedVisual == Store(ImportedFast.heap, TemplateLiteral("visual_automation"))

\* CONFIG_TEMPLATES: the dict object under each name.
CONFIG_TEMPLATES ==
    [config_name \in ConfigNames |->
        IF config_name = "fast_automation" THEN ImportedFast.value ELSE ImportedVisual.value]

\* The configurations and the most recent call on them: the heap, the
\* references the caller holds, and what the call was given and returned.
ConfigManager ==
    [ heap |-> ImportedVisual.heap,
      held |-> <<>>,
      ret  |-> [op |-> "__init__", base |-> PyNone, override |-> PyNone, value |-> PyNone,
                raised |-> None] ]

\* ConfigManager.get_config: CONFIG_TEMPLATES[config_name].copy(), a new dict
\* with the items of the template; no file is in the config directory.
get_config(heap, config_name) ==
    IF config_name \in ConfigNames
    THEN [heap   |-> Append(heap, heap[CONFIG_TEMPLATES[config_name].ref]),
          value  |-> Ref(Len(heap) + 1),
          raised |-> None]
    ELSE [heap |-> heap, value |-> PyNone, raised |-> Some("ValueError")]

\* if overrides: of None or a dict
Truthy(heap, value) == IsRef(value) /\ heap[value.ref] # <<>>

\* The loop of create_custom_config over overrides.items().
RECURSIVE ApplyOverrides(_, _, _)
ApplyOverrides(heap, base, items) ==
    IF items = <<>> THEN heap
    ELSE LET key   == Head(items)[1]
             value == Head(items)[2]
             pairs == heap[base]
         IN IF key \in Keys(pairs) /\ IsRef(value) /\ IsRef(ValueOf(pairs, key))
            THEN ApplyOverrides([heap EXCEPT ![ValueOf(pairs, key).ref] =
                                                Update(@, heap[value.ref])],
                                base, Tail(items))
            ELSE ApplyOverrides([heap EXCEPT ![base] = SetItem(@, key, value)],
                                base, Tail(items))

\* ConfigManager.create_custom_config
create_custom_config(heap, name, description, base_config, overrides) ==
    LET got    == get_config(heap, base_config)
        base   == got.value.ref
        merged == IF Truthy(got.heap, overrides)
                  THEN ApplyOverrides(got.heap, base, got.heap[overrides.ref])
                  ELSE got.heap
    IN IF got.raised # None THEN got
       ELSE [heap   |-> [merged EXCEPT ![base] = SetItem(SetItem(@, "name", Str(name)),
                                                         "description", Str(description))],
             value  |-> got.value,
             raised |-> None]

\* merge_configs: result is a copy of base_config; the loop over
\* override_config.items() merges the dicts under a key of both.
RECURSIVE merge_configs(_, _, _), MergeItems(_, _, _)
merge_configs(heap, base_config, override_config) ==
    [heap  |-> MergeItems(Append(heap, heap[base_config.ref]), Len(heap) + 1,
                          heap[override_config.ref]),
     value |-> Ref(Len(heap) + 1)]

MergeItems(heap, result, items) ==
    IF items = <<>> THEN heap
    ELSE LET key   == Head(items)[1]
             value == Head(items)[2]
             pairs == heap[result]
         IN IF key \in Keys(pairs) /\ IsRef(value) /\ IsRef(ValueOf(pairs, key))
            THEN LET merged == merge_configs(heap, ValueOf(pairs, key), value)
                 IN MergeItems([merged.heap EXCEPT ![result] = SetItem(@, key, merged.value)],
                               result, Tail(items))
            ELSE MergeItems([heap EXCEPT ![result] = SetItem(@, key, value)],
                            result, Tail(items))

\* default_config of _load_config, with the items of 'browser' the templates
\* have under browser_config and the timeout of 'performance'.
DefaultConfig ==
    Dict(<< <<"browser",
              Dict(<< <<"headless", Scalar("False")>>,
                      <<"window_size", Dict(<< <<"width", Scalar("1920")>>,
                                               <<"height", Scalar("1080")>> >>)>> >>)>>,
            <<"performance", Dict(<< <<"timeout", Scalar(ToString(DefaultTimeout))>> >>)>> >>)

\* The loop of _load_config over config.items(): every value of
\* default_config is a dict.
RECURSIVE LoadItems(_, _, _)
LoadItems(heap, default_config, items) ==
    IF items = <<>> THEN heap
    ELSE LET key   == Head(items)[1]
             value == Head(items)[2]
             pairs == heap[default_config]
         IN IF key \in Keys(pairs) /\ IsRef(value)
            THEN LoadItems([heap EXCEPT ![ValueOf(pairs, key).ref] =
                                           Update(@, heap[value.ref])],
                           default_config, Tail(items))
            ELSE LoadItems([heap EXCEPT ![default_config] = SetItem(@, key, value)],
                           default_config, Tail(items))

\* BrowserAutomationBackend._load_config
_load_config(heap, config) ==
    LET built == Store(heap, DefaultConfig)
    IN [heap  |-> IF Truthy(built.heap, config)
                  THEN LoadItems(built.heap, built.value.ref, built.heap[config.ref])
                  ELSE built.heap,
        value |-> built.value]

\* The overrides given to create_custom_config and merge_configs, and the
\* configs given to BrowserAutomationBackend(config) besides the ones held.
Overrides ==
    { Dict(<< <<"browser_config",
                Dict(<< <<"window_size", Dict(<< <<"width", Scalar("800")>> >>)>> >>)>> >>),
      Dict(<< <<"browser_config", Dict(<< <<"headless", Scalar("False")>> >>)>>,
              <<"custom_settings", Dict(<< <<"form_data", Str("sample")>> >>)>> >>) }

LoadConfigs ==
    { Dict(<< <<"browser",
                Dict(<< <<"window_size", Dict(<< <<"width", Scalar("800")>> >>)>> >>)>> >>),
      Dict(<< <<"browser", Dict(<< <<"headless", Scalar("True")>> >>)>>,
              <<"performance", Scalar("fast")>> >>) }

\* What the caller holds after a call that returned a config.
Holding(c, op, base, override, done) ==
    [ heap |-> done.heap,
      held |-> Append(c.held, done.value),
      ret  |-> [op |-> op, base |-> base, override |-> override,
                value |-> ValueAt(done.heap, done.value), raised |-> None] ]

MayHold == Len(configs.held) < MaxConfigs

\* config_manager.get_config(config_name), of a template or of no config.
ConfigGet ==
    /\ MayHold
    /\ \E config_name \in ConfigNames \cup {"missing"} :
          LET done == get_config(configs.heap, config_name)
          IN configs' = IF done.raised # None
                        THEN [configs EXCEPT !.ret = [op |-> "get_config", base |-> PyNone,
                                                      override |-> PyNone, value |-> PyNone,
                                                      raised |-> done.raised]]
                        ELSE Holding(configs, "get_config",
                                     TemplateLiteral(config_name), PyNone, done)
    /\ UNCHANGED <<lifecycle, retry, backoff, cache, race, vnc, flow>>

\* create_custom_config(name, description, base_config, overrides), with
\* overrides a dict display or None.
ConfigCreateCustom ==
    /\ MayHold
    /\ \E base_config \in ConfigNames, overrides \in Overrides \cup {PyNone} :
          LET given == Store(configs.heap, overrides)
              done  == create_custom_config(given.heap, "Mine", "My configuration",
                                            base_config, given.value)
          IN configs' = Holding(configs, "create_custom_config",
                                ValueAt(configs.heap, CONFIG_TEMPLATES[base_config]),
                                overrides, done)
    /\ UNCHANGED <<lifecycle, retry, backoff, cache, race, vnc, flow>>

\* The nested fields the callers assign: config['browser']['headless'] of
\* create_task in main.py, and the field of the same name of a template.
EditPaths == { <<"browser", "headless">>, <<"browser_config", "headless">> }

\* config[path[1]][path[2]] = value on the config the caller has just got.
ConfigEdit ==
    /\ \E i \in {Len(configs.held)} \ {0}, path \in EditPaths, value \in {"True", "False"} :
          LET pairs  == configs.heap[configs.held[i].ref]
              before == ValueAt(configs.heap, configs.held[i])
              edited == [configs.heap EXCEPT ![ValueOf(pairs, path[1]).ref] =
                                                SetItem(@, path[2], Scalar(value))]
          IN configs' =
                IF path[1] \in Keys(pairs)
                THEN [configs EXCEPT
                         !.heap = edited,
                         !.ret = [op |-> "edit", base |-> before, override |-> PyNone,
                                  value |-> ValueAt(edited, configs.held[i]), raised |-> None]]
                ELSE [configs EXCEPT
                         !.ret = [op |-> "edit", base |-> before, override |-> PyNone,
                                  value |-> PyNone, raised |-> Some("KeyError")]]
    /\ UNCHANGED <<lifecycle, retry, backoff, cache, race, vnc, flow>>

\* merge_configs(base_config, override_config) of a held config and a dict display.
ConfigMerge ==
    /\ MayHold
    /\ \E i \in DOMAIN configs.held, override \in Overrides :
          LET given == Store(configs.heap, override)
          IN configs' = Holding(configs, "merge_configs",
                                ValueAt(configs.heap, configs.held[i]), override,
                                merge_configs(given.heap, configs.held[i], given.value))
    /\ UNCHANGED <<lifecycle, retry, backoff, cache, race, vnc, flow>>

\* BrowserAutomationBackend(config): self.config = self._load_config(config),
\* of None, of a held config or of a dict display.
ConfigLoad ==
    /\ MayHold
    /\ \/ \E i \in DOMAIN configs.held :
             configs' = Holding(configs, "_load_config", DefaultConfig,
                                ValueAt(configs.heap, configs.held[i]),
                                _load_config(configs.heap, configs.held[i]))
       \/ \E config \in LoadConfigs \cup {PyNone} :
             LET given == Store(configs.heap, config)
             IN configs' = Holding(configs, "_load_config", DefaultConfig, config,
                                   _load_config(given.heap, given.value))
    /\ UNCHANGED <<lifecycle, retry, backoff, cache, race, vnc, flow>>

\* The submit flow of example_usage.py before it has looked anything up.
NoFlow == [pc |-> "idle", task_id |-> "", runs |-> 0, log |-> <<>>]

----------------------------------------------------------------------------
(* The specifications *)

\* A manager just constructed.
Constructed ==
    /\ backend = NewBackend
    /\ unobserved = NewBackend
    /\ calls = {}
    /\ ret = Returned("__init__", "", "None", CallInfo(NewBackend, "", 0))
    /\ clock = 0
    /\ configs = ConfigManager
    /\ flow = NoFlow

Init ==
    /\ Constructed
    /\ horizon = MaxClock
    /\ retry = RetryCall("async", RetryConfig)
    /\ backoff = NoDelay(RetryConfig)
    /\ cache = TaskCache(TtlHours)
    /\ race = NoRace
    /\ vnc = VNCManager(<<>>)

\* Spec: the callers serialize their calls on the manager, as spec section 4.1
\* asks and every caller of the repository does.
Next ==
    \/ AddStepCallback(TRUE)
    \/ CreateTask(TRUE)
    \/ RunTaskUnknown(TRUE)
    \/ RunTaskStart(TRUE)
    \/ RunTaskEnvFault(TRUE)
    \/ RunTaskReturn
    \/ RunTaskTimeout
    \/ RunTaskFault

Spec == Init /\ [][Next]_vars

\* SpecOverlap: calls may begin while run_task coroutines are suspended.
NextOverlap ==
    \/ AddStepCallback(FALSE)
    \/ CreateTask(FALSE)
    \/ RunTaskUnknown(FALSE)
    \/ RunTaskStart(FALSE)
    \/ RunTaskEnvFault(FALSE)
    \/ RunTaskReturn
    \/ RunTaskTimeout
    \/ RunTaskFault

SpecOverlap == Init /\ [][NextOverlap]_vars

\* SpecRuns: serialized callers that only create tasks and run them, as
\* the callers in src/example_usage.py do, over a longer horizon.
InitRuns ==
    /\ Constructed
    /\ horizon = MaxClockRuns
    /\ retry = RetryCall("async", RetryConfig)
    /\ backoff = NoDelay(RetryConfig)
    /\ cache = TaskCache(TtlHours)
    /\ race = NoRace
    /\ vnc = VNCManager(<<>>)

NextRuns ==
    \/ CreateTask(TRUE)
    \/ RunTaskStart(TRUE)
    \/ RunTaskReturn
    \/ RunTaskTimeout
    \/ RunTaskFault

SpecRuns == InitRuns /\ [][NextRuns]_vars

\* SpecRetry: one call of a wrapped function under each policy.
InitRetry ==
    /\ Constructed
    /\ horizon = MaxClock
    /\ \E flavour \in {"async", "sync"}, config \in RetryConfigs :
          retry = RetryCall(flavour, config)
    /\ backoff = NoDelay(RetryConfig)
    /\ cache = TaskCache(TtlHours)
    /\ race = NoRace
    /\ vnc = VNCManager(<<>>)

NextRetry ==
    \/ RetryAttempt
    \/ RetryFuncReturns
    \/ RetryFuncRaises
    \/ RetryWake

SpecRetry == InitRetry /\ [][NextRetry]_vars

\* SpecDelay: calculate_retry_delay called under each policy, for each attempt
\* and each value of the random source.
InitDelay ==
    /\ Constructed
    /\ horizon = MaxClock
    /\ retry = RetryCall("async", RetryConfig)
    /\ \E config \in DelayConfigs : backoff = NoDelay(config)
    /\ cache = TaskCache(TtlHours)
    /\ race = NoRace
    /\ vnc = VNCManager(<<>>)

NextDelay == CalculateRetryDelay

SpecDelay == InitDelay /\ [][NextDelay]_vars

\* SpecCache: one process calls get and set on a TaskCache while time passes and
\* the files of its directory are damaged from outside.
InitCache ==
    /\ Constructed
    /\ horizon = MaxClock
    /\ retry = RetryCall("async", RetryConfig)
    /\ backoff = NoDelay(RetryConfig)
    /\ cache = TaskCache(TtlHours)
    /\ race = NoRace
    /\ vnc = VNCManager(<<>>)

NextCache ==
    \/ CacheSet
    \/ CacheGet
    \/ CacheElapse
    \/ CacheDamage
    \/ CacheSweep

SpecCache == InitCache /\ [][NextCache]_vars

\* SpecRace: calls of set, get and clear_expired for one key interleave.
InitRace ==
    /\ Constructed
    /\ horizon = MaxClock
    /\ retry = RetryCall("async", RetryConfig)
    /\ backoff = NoDelay(RetryConfig)
    /\ cache = TaskCache(TtlHours)
    /\ \E earlier \in EarlierEntries : race = StartOfRace(earlier)
    /\ vnc = VNCManager(<<>>)

NextRace ==
    \/ RaceBegin
    \/ RaceSetOpen
    \/ RaceSetDump
    \/ RaceGetExists
    \/ RaceGetRead
    \/ RaceGetUnlink
    \/ RaceSweepGlob
    \/ RaceSweepRead
    \/ RaceSweepUnlink
    \/ RaceSweepExcept

SpecRace == InitRace /\ [][NextRace]_vars

\* SpecSupervisor: calls on one VNCManager, on a host that may run stages
\* of an earlier supervisor.
InitSupervisor ==
    /\ Constructed
    /\ horizon = MaxClock
    /\ retry = RetryCall("async", RetryConfig)
    /\ backoff = NoDelay(RetryConfig)
    /\ cache = TaskCache(TtlHours)
    /\ race = NoRace
    /\ \E table \in Tables : vnc = VNCManager(table)

NextSupervisor ==
    \/ SupervisorStart
    \/ SupervisorStartStage
    \/ SupervisorStop
    \/ SupervisorTerminate
    \/ SupervisorWaitExited
    \/ SupervisorWaitTimeout
    \/ SupervisorSweep
    \/ SupervisorProbe

SpecSupervisor == InitSupervisor /\ [][NextSupervisor]_vars

\* SpecConfig: a caller gets configs of the templates, creates custom ones,
\* merges them, gives them to a backend and assigns nested fields of them.
InitConfig ==
    /\ Constructed
    /\ horizon = MaxClock
    /\ retry = RetryCall("async", RetryConfig)
    /\ backoff = NoDelay(RetryConfig)
    /\ cache = TaskCache(TtlHours)
    /\ race = NoRace
    /\ vnc = VNCManager(<<>>)

NextConfig ==
    \/ ConfigGet
    \/ ConfigCreateCustom
    \/ ConfigEdit
    \/ ConfigMerge
    \/ ConfigLoad

SpecConfig == InitConfig /\ [][NextConfig]_vars

\* SpecLive: the calls that wait for something, under the fairness their
\* schedulers give. The three services do not share state, and a behaviour is
\* one of them at work: run_task on the lifecycle manager, a wrapped call of
\* retry_async or retry_sync, or the supervisor. The timer of asyncio.wait_for
\* fires; the wrapped function and the sleep of the wrapper end; terminate(),
\* the timeout of wait(timeout=5) and the sweep of stop() take finite time.
\* Nothing makes the executor answer or a signalled process exit. The host
\* of the supervisor is free of faults here, and the clock stops early.
LifecycleUntouched == clock = 0

RetryUntouched == retry = RetryCall(retry.flavour, retry.config)

SupervisorUntouched == vnc = VNCManager(vnc.table)

LifecycleTurn == RetryUntouched /\ SupervisorUntouched

RetryTurn == LifecycleUntouched /\ SupervisorUntouched

SupervisorTurn == LifecycleUntouched /\ RetryUntouched

InitLive ==
    /\ Constructed
    /\ horizon = MaxClockLive
    /\ \E n \in 0 .. MaxAttempts, table \in Tables :
          /\ n = MaxAttempts \/ table = <<>>
          /\ retry = RetryCall("async", [RetryConfig EXCEPT !.max_attempts = n])
          /\ vnc = VNCManager(table)
    /\ backoff = NoDelay(RetryConfig)
    /\ cache = TaskCache(TtlHours)
    /\ race = NoRace

NextLive ==
    \/ LifecycleTurn /\ CreateTask(TRUE)
    \/ LifecycleTurn /\ clock + 1 < horizon /\ RunTaskStart(TRUE)
    \/ LifecycleTurn /\ RunTaskReturn
    \/ LifecycleTurn /\ RunTaskTimeout
    \/ LifecycleTurn /\ RunTaskFault
    \/ RetryTurn /\ RetryAttempt
    \/ RetryTurn /\ RetryFuncReturns
    \/ RetryTurn /\ RetryFuncRaises
    \/ RetryTurn /\ RetryWake
    \/ SupervisorTurn /\ SupervisorStart
    \/ SupervisorTurn /\ SupervisorStartStage /\ vnc'.faults = 0
    \/ SupervisorTurn /\ SupervisorStop
    \/ SupervisorTurn /\ SupervisorTerminate
    \/ SupervisorTurn /\ SupervisorWaitExited
    \/ SupervisorTurn /\ SupervisorWaitTimeout
    \/ SupervisorTurn /\ SupervisorSweep /\ vnc'.faults = 0

FairLive ==
    /\ WF_vars(LifecycleTurn /\ RunTaskTimeout)
    /\ WF_vars(RetryTurn /\ RetryAttempt)
    /\ WF_vars(RetryTurn /\ (RetryFuncReturns \/ RetryFuncRaises))
    /\ WF_vars(RetryTurn /\ RetryWake)
    /\ WF_vars(SupervisorTurn /\ SupervisorTerminate)
    /\ WF_vars(SupervisorTurn /\ SupervisorWaitTimeout)
    /\ WF_vars(SupervisorTurn /\ SupervisorSweep /\ vnc'.faults = 0)

SpecLive == InitLive /\ [][NextLive]_vars /\ FairLive

----------------------------------------------------------------------------
(* Properties of the task lifecycle manager *)

\* The most recent call was run_task on an id that was known when it began.
RunOfKnownId == ret.op = "run_task" /\ ret.call.before # None

\* The steps of task t recorded since it had base steps, with the given action.
StepsSince(t, base, action) ==
    { i \in (base + 1)..Len(t.steps) : t.steps[i].action = action }

IsPrefix(s, t) == Len(s) <= Len(t) /\ SubSeq(t, 1, Len(s)) = s

StatusRank(status) ==
    CASE status = "pending" -> 0
      [] status = "running" -> 1
      [] status \in {"completed", "failed"} -> 2

C2_StatusMonotone ==
    [][\A task_id \in DOMAIN backend.tasks :
          StatusRank(TaskOf(backend, task_id).status)
             <= StatusRank(TaskOf(backend', task_id).status)]_vars

\* C3: when the executor exceeds the timeout, the task ends FAILED with an error
\* that contains "timed out", and the run appended exactly one task_timeout step
\* to the task's steps.
C3_TimeoutFailsWithOneTimeoutStep ==
    (RunOfKnownId /\ ret.call.outcome = "timeout") =>
        LET task == TaskOf(backend, ret.task_id) IN
        /\ task.status = "failed"
        /\ task.error # None
        /\ "timed out" \in Range(task.error[1])
        /\ Cardinality(StepsSince(task, ret.call.base, "task_timeout")) = 1

\* A run timed out on a task that an earlier run had already left with steps.
C3_Witness ==
    /\ RunOfKnownId
    /\ ret.call.outcome = "timeout"
    /\ ret.call.base > 0
    /\ TaskOf(backend, ret.task_id).status = "failed"

C5_DuplicateRejected ==
    ret.op = "create_task" =>
        IF ret.call.before # None
        THEN /\ ret.raised # None
             /\ ret.raised[1].type = "DuplicateTaskError"
             /\ TaskOf(backend, ret.task_id) = ret.call.before[1]
        ELSE /\ ret.raised = None
             /\ TaskOf(backend, ret.task_id).status = "pending"
             /\ TaskOf(backend, ret.task_id).steps = <<>>

\* C6 (as claimed): run_task on an id that was never created returns a not-found
\* value and raises nothing, and changes no task record, step, metric or the
\* current-task slot.
C6_UnknownIdReturnsNotFound ==
    [][(/\ ret'.op = "run_task"
        /\ ret'.call.n = clock'
        /\ ret'.call.before = None)
       => /\ ret'.raised = None
          /\ ret'.value # None
          /\ backend'.tasks = backend.tasks
          /\ backend'.heap = backend.heap
          /\ backend'.performance_metrics = backend.performance_metrics
          /\ backend'.current_task = backend.current_task]_vars

\* The number of steps one run records, by what the environment and the executor did.
StepsOfRun(outcome) ==
    CASE outcome \in {"browser", "llm"} -> 2
      [] outcome = "agent" -> 3
      [] outcome \in {"returned", "raised"} -> 4
      [] outcome = "timeout" -> 5

\* C7 (as claimed): while a run_task call is between taking the slot and
\* returning, current_task is its task, and every step the call emits is
\* appended to that task's own steps.
C7_SlotExclusive ==
    /\ \A call \in calls : backend.current_task = Some(call.task)
    /\ RunOfKnownId =>
          Len(backend.heap[ret.call.task].steps)
             = ret.call.base + StepsOfRun(ret.call.outcome)

\* C8: in every task's step list the k-th step carries the id step_k, so the ids
\* are pairwise distinct and strictly increasing in list order.
C8_StepIdsIncrease ==
    \A ref \in DOMAIN backend.heap :
        LET steps == backend.heap[ref].steps IN
        /\ \A k \in DOMAIN steps : steps[k].step_id = StepId(k)
        /\ \A j, k \in DOMAIN steps : j < k => steps[j].step_id.n < steps[k].step_id.n

\* A task holds the steps of two runs.
C8_Witness ==
    \E task_id \in DOMAIN backend.tasks :
        /\ Len(TaskOf(backend, task_id).steps) >= 6
        /\ Cardinality({ i \in DOMAIN TaskOf(backend, task_id).steps :
                            TaskOf(backend, task_id).steps[i].action = "task_started" }) = 2

\* C9 (as claimed): the step list of a task id only grows: the list of an earlier
\* state is a prefix of the list of any later state, after any call on the
\* manager, create_task included.
C9_StepsAppendOnly ==
    [][\A task_id \in DOMAIN backend.tasks :
          IsPrefix(TaskOf(backend, task_id).steps, TaskOf(backend', task_id).steps)]_vars

\* C10: for every step recorded, every registered observer is called exactly
\* once, in registration order, also after an observer raised; and the tasks,
\* their steps and statuses, and the metrics are those of the same calls on a
\* manager with no observer.
C10_ObserverFaultsContained ==
    LET n == Len(backend.step_callbacks) IN
    /\ Len(backend.notified) = Len(backend.emitted) * n
    /\ \A j \in DOMAIN backend.emitted, i \in 1..n :
          LET called == backend.notified[(j - 1) * n + i] IN
          /\ called.callback = i
          /\ called.task = backend.emitted[j].task
          /\ called.step_id = backend.emitted[j].step_id
    /\ backend.heap = unobserved.heap
    /\ backend.tasks = unobserved.tasks
    /\ backend.performance_metrics = unobserved.performance_metrics
    /\ backend.current_task = unobserved.current_task

\* A run has returned on a manager whose first observer raises and whose second
\* observer was called after it.
C10_Witness ==
    /\ RunOfKnownId
    /\ Len(backend.step_callbacks) >= 2
    /\ backend.step_callbacks[1] = "raises"
    /\ \E k \in DOMAIN backend.notified :
          /\ k > 1
          /\ backend.notified[k].callback = 2
          /\ backend.notified[k - 1].raised

----------------------------------------------------------------------------
(* Properties of the performance metrics *)

RECURSIVE SumSeq(_)
SumSeq(s) == IF s = <<>> THEN 0 ELSE Head(s) + SumSeq(Tail(s))

\* The durations the task_completed steps of one task record, in order.
CompletedDurations(task) ==
    LET completed == SelectSeq(task.steps, LAMBDA step : step.action = "task_completed")
    IN [i \in DOMAIN completed |-> completed[i].details.duration]

\* The sum of the durations of the successful runs of every task ever created.
SuccessfulDurationSum(b) ==
    SumSeq([i \in DOMAIN b.heap |-> SumSeq(CompletedDurations(b.heap[i]))])

\* C11: average_task_duration times successful_tasks is the sum of the durations
\* of the successful runs (0 before the first), and a run that failed or timed
\* out leaves the average as it was when the call began.
C11_AverageIsIncrementalMean ==
    LET metrics == backend.performance_metrics
        avg     == metrics.average_task_duration
    IN /\ avg.den > 0
       /\ avg.num * metrics.successful_tasks = SuccessfulDurationSum(backend) * avg.den
       /\ metrics.successful_tasks = 0 => avg.num = 0
       /\ (ret.op = "run_task" /\ ret.call.outcome \in {"timeout", "raised"})
             => avg = ret.call.metrics.average_task_duration

\* Three successful runs of durations 2, 4 and 6, in this order, average 4.
C11_Witness ==
    /\ backend.performance_metrics.successful_tasks = 3
    /\ \E i \in DOMAIN backend.heap : CompletedDurations(backend.heap[i]) = <<2, 4, 6>>
    /\ backend.performance_metrics.average_task_duration = [num |-> 4, den |-> 1]

\* A failed run after a successful one left the average where it was.
C11_WitnessFailedRun ==
    /\ ret.op = "run_task" /\ ret.call.outcome \in {"timeout", "raised"}
    /\ backend.performance_metrics.successful_tasks = 2
    /\ backend.performance_metrics.average_task_duration = [num |-> 3, den |-> 1]

----------------------------------------------------------------------------
(* Properties of the retry wrappers *)

\* Every failure of func so far was one the policy retries.
OnlyRetryableFailures ==
    \A i \in DOMAIN Failures(retry) :
        Caught(Failures(retry)[i].exception.type, retry.config.retry_on_exceptions)

\* C12: with max_attempts = N >= 1, a function that fails retryably N - 1 times
\* and then succeeds makes the wrapper return its value after exactly N
\* invocations and exactly N - 1 sleeps; while fewer than N invocations have
\* failed, all retryably, the wrapper has not given up.
C12_SucceedsOnLastAttempt ==
    LET N == retry.config.max_attempts IN
    (N >= 1 /\ OnlyRetryableFailures) =>
        /\ (retry.pc = "returned" /\ Len(Failures(retry)) = N - 1) =>
              /\ retry.value \in { Some(value) : value \in ReturnValues }
              /\ retry.raised = None
              /\ Len(Calls(retry)) = N
              /\ Len(Sleeps(retry)) = N - 1
        /\ Len(Failures(retry)) < N => retry.pc # "raised"

\* Two retryable failures, then success on the third and last attempt.
C12_Witness ==
    /\ retry.config.max_attempts = 3
    /\ retry.pc = "returned"
    /\ Len(Failures(retry)) = 2
    /\ OnlyRetryableFailures
    /\ Len(Sleeps(retry)) = 2

\* C13: with max_attempts = N >= 1, when every invocation fails retryably the
\* wrapper raises after exactly N invocations and N - 1 sleeps, none of them
\* after the last failure, and what it raises is the exception object of the
\* last invocation.
C13_ExhaustionRaisesLastFailure ==
    LET N == retry.config.max_attempts IN
    (N >= 1 /\ OnlyRetryableFailures /\ retry.pc = "raised") =>
        /\ Len(Calls(retry)) = N
        /\ Len(Failures(retry)) = N
        /\ Len(Sleeps(retry)) = N - 1
        /\ \A i \in DOMAIN Sleeps(retry) : Sleeps(retry)[i].attempt < N
        /\ retry.log[Len(retry.log)].what = "raise"
        /\ retry.raised = Some(retry.log[Len(retry.log)].exception)
        /\ retry.raised = Some(Failure(retry.raised[1].type, N))
        /\ retry.value = None

\* Three retryable failures of different kinds under max_attempts = 3: the
\* third is raised.
C13_Witness ==
    /\ retry.config.max_attempts = 3
    /\ retry.pc = "raised"
    /\ OnlyRetryableFailures
    /\ Len(Failures(retry)) = 3
    /\ Failures(retry)[1].exception.type = "ConnectionError"
    /\ retry.raised = Some(Failure("ValueError", 3))

\* C14: a failure that the policy does not retry leaves the wrapper at once: it
\* is the last event of the call, no invocation and no sleep follows it, and the
\* wrapper raises that exception object.
C14_NonRetryablePropagates ==
    \A i \in DOMAIN retry.log :
        (/\ retry.log[i].what = "raise"
         /\ ~Caught(retry.log[i].exception.type, retry.config.retry_on_exceptions)) =>
            /\ i = Len(retry.log)
            /\ retry.pc = "raised"
            /\ retry.raised = Some(retry.log[i].exception)
            /\ Len(Sleeps(retry)) = Len(Calls(retry)) - 1

\* A ValueError on the second of three attempts, under a policy that retries
\* ConnectionError only.
C14_Witness ==
    /\ retry.config.max_attempts = 3
    /\ retry.config.retry_on_exceptions = {"ConnectionError"}
    /\ Len(Calls(retry)) = 2
    /\ Len(Sleeps(retry)) = 1
    /\ retry.pc = "raised"
    /\ retry.raised = Some(Failure("ValueError", 2))

----------------------------------------------------------------------------
(* Properties of the backoff policy *)

\* fib(1) = fib(2) = 1, fib(n) = fib(n - 1) + fib(n - 2)
RECURSIVE Fib(_)
Fib(n) == IF n <= 2 THEN 1 ELSE Fib(n - 1) + Fib(n - 2)

DelayComputed == backoff.delay # None

\* C15: under FIBONACCI without jitter, when max_delay does not bind, the delay
\* of attempt n is base_delay * fib(n) with fib(1) = fib(2) = 1: with base 1 the
\* attempts 1..5 wait 1, 1, 2, 3, 5.
C15_FibonacciDelays ==
    LET config   == backoff.config
        expected == Times(config.base_delay, Float(Fib(backoff.attempt)))
    IN (/\ DelayComputed
        /\ config.strategy = "fibonacci"
        /\ ~config.jitter
        /\ AtMost(expected, config.max_delay)) =>
           /\ backoff.delay = Some(expected)
           /\ (config.base_delay = Float(1) /\ backoff.attempt <= 5) =>
                 backoff.delay = Some(Float(<<1, 1, 2, 3, 5>>[backoff.attempt]))

C17_ClampAfterJitter ==
    LET config == backoff.config
        d      == RawDelay(backoff.attempt, config, backoff.u)
        j      == IF config.jitter THEN JitterFactor(backoff.v) ELSE Float(1)
        jd     == Times(j, d)
    IN DelayComputed =>
          /\ AtMost(backoff.delay[1], config.max_delay)
          /\ AtMost(Fraction(4, 5), j) /\ AtMost(j, Fraction(6, 5))
          /\ backoff.delay = Some(IF AtMost(jd, config.max_delay) THEN jd ELSE config.max_delay)
          /\ config.strategy = "random" =>
                /\ AtMost(config.base_delay, d)
                /\ AtMost(d, Times(Float(3), config.base_delay))

\* The raw delay is within max_delay, the jittered delay is not, and max_delay
\* is returned.
C17_Witness ==
    /\ DelayComputed
    /\ backoff.config.jitter
    /\ AtMost(RawDelay(backoff.attempt, backoff.config, backoff.u), backoff.config.max_delay)
    /\ ~AtMost(Times(JitterFactor(backoff.v),
                     RawDelay(backoff.attempt, backoff.config, backoff.u)),
               backoff.config.max_delay)
    /\ backoff.delay = Some(backoff.config.max_delay)

----------------------------------------------------------------------------
(* Properties of the result cache *)

\* Two values with the same keys and the same values at every nesting level,
\* whatever the order their keys were inserted in.
RECURSIVE SameValue(_, _)
SameValue(x, y) ==
    IF IsDict(x) /\ IsDict(y)
    THEN /\ Keys(x.dict) = Keys(y.dict)
         /\ \A key \in Keys(x.dict) : SameValue(ValueOf(x.dict, key), ValueOf(y.dict, key))
    ELSE x = y

\* This step is a call of get; cache'.ret holds its arguments and its result.
GetStep == cache'.ret.op = "get" /\ cache' # cache

\* The member of a JSON object with this name, if the text is an object with one.
MemberOf(text, name) ==
    IF "members" \in DOMAIN text /\ name \in Keys(text.members)
    THEN Some(ValueOf(text.members, name)) ELSE None

\* The hour an entry was written at, if the file holds a JSON object with a
\* well-formed timestamp.
WrittenAt(file) ==
    LET timestamp == MemberOf(file.text, "timestamp")
    IN IF /\ file.kind = "json"
          /\ timestamp # None
          /\ "string" \in DOMAIN timestamp[1]
          /\ IsIsoFormat(timestamp[1].string)
       THEN Some(FromIsoFormat(timestamp[1].string)) ELSE None

\* C18: a get(description, config') finds the result of a set(description,
\* config, result) made at most the TTL ago whenever config' has the keys and
\* values of config at every nesting level, in whatever insertion order: it
\* computes the key the set computed and returns the result that was stored.
C18_GetAfterSetHits ==
    [][GetStep =>
          \A key \in DOMAIN cache.store :
              LET stored == cache.store[key].set_by
              IN (/\ stored # None
                  /\ stored[1].task_description = cache'.ret.description
                  /\ SameValue(stored[1].config, cache'.ret.config)
                  /\ cache.now - stored[1].now <= cache.ttl) =>
                     /\ _get_cache_key(cache'.ret.description, cache'.ret.config) = key
                     /\ cache'.ret.value = stored[1].result
                     /\ cache'.ret.raised = None
                     /\ cache'.store = cache.store]_vars

\* A get under the reordered config returned, at the last hour of its life, the
\* result set under the config.
C18_Witness ==
    /\ cache.ret.op = "get"
    /\ cache.ret.config = ConfigAReordered
    /\ cache.ret.before # None
    /\ cache.ret.before[1].set_by # None
    /\ cache.ret.before[1].set_by[1].config = ConfigA
    /\ cache.ret.now - cache.ret.before[1].set_by[1].now = cache.ttl
    /\ cache.ret.value = cache.ret.before[1].set_by[1].result
    /\ cache.ret.value \in CacheResults

\* C19: a get whose entry is older than the TTL reports a miss and removes the
\* file of the entry; every other file of the directory stays as it was.
C19_ExpiredEntryEvictedOnRead ==
    [][GetStep =>
          LET key == _get_cache_key(cache'.ret.description, cache'.ret.config)
          IN (/\ key \in DOMAIN cache.store
              /\ WrittenAt(cache.store[key]) # None
              /\ cache.now - WrittenAt(cache.store[key])[1] > cache.ttl) =>
                 /\ cache'.ret.value = PyNone
                 /\ cache'.ret.raised = None
                 /\ DOMAIN cache'.store = DOMAIN cache.store \ {key}
                 /\ \A other \in DOMAIN cache'.store :
                        cache'.store[other] = cache.store[other]]_vars

\* A get found an entry written by set more than the TTL ago: it returned None,
\* the file is gone and the file of the other key is still there.
C19_Witness ==
    /\ cache.ret.op = "get"
    /\ cache.ret.before # None
    /\ cache.ret.before[1].set_by # None
    /\ cache.ret.now - cache.ret.before[1].set_by[1].now > cache.ttl
    /\ cache.ret.value = PyNone
    /\ _get_cache_key(cache.ret.description, cache.ret.config) \notin DOMAIN cache.store
    /\ \E other \in DOMAIN cache.store : cache.store[other].set_by # None

\* An entry that cannot be read or is no JSON object with a well-formed
\* timestamp and a result.
Invalid(file) ==
    \/ file.kind # "json"
    \/ WrittenAt(file) = None
    \/ MemberOf(file.text, "result") = None

\* C20: get never raises, and it returns None when the entry is absent,
\* unreadable or structurally invalid.
C20_GetNeverRaises ==
    cache.ret.op = "get" =>
        /\ cache.ret.raised = None
        /\ (cache.ret.before = None \/ Invalid(cache.ret.before[1])) => cache.ret.value = PyNone

\* A get found a JSON object whose timestamp is no timestamp and returned None,
\* leaving the file.
C20_Witness ==
    /\ cache.ret.op = "get"
    /\ cache.ret.before # None
    /\ cache.ret.before[1].kind = "json"
    /\ MemberOf(cache.ret.before[1].text, "timestamp") = Some([string |-> "yesterday"])
    /\ cache.ret.raised = None
    /\ cache.ret.value = PyNone
    /\ FileAt(cache.store, _get_cache_key(cache.ret.description, cache.ret.config))
          = cache.ret.before

\* This step is a call of clear_expired.
SweepStep == cache'.ret.op = "clear_expired" /\ cache' # cache

\* The timestamp of the entry is more than the TTL old.
Expired(file, now, ttl) == WrittenAt(file) # None /\ now - WrittenAt(file)[1] > ttl

\* C21: after clear_expired the directory holds no entry that is expired or
\* structurally invalid, and every entry that was valid and not older than the
\* TTL is still there, unchanged.
C21_SweepLeavesValidEntriesOnly ==
    [][SweepStep =>
          /\ \A key \in DOMAIN cache'.store :
                 /\ ~Invalid(cache'.store[key])
                 /\ ~Expired(cache'.store[key], cache.now, cache.ttl)
          /\ \A key \in DOMAIN cache.store :
                 (~Invalid(cache.store[key]) /\ ~Expired(cache.store[key], cache.now, cache.ttl))
                    => /\ key \in DOMAIN cache'.store
                       /\ cache'.store[key] = cache.store[key]]_vars

\* The calls of the race that have returned or raised, and the last of them.
AllDone == \A w \in DOMAIN race.calls : race.calls[w].pc = "done"

OnlySets == \A w \in DOMAIN race.calls : race.calls[w].op = "set"

LastFinisher == race.finished[Len(race.finished)]

\* C22: when two set calls for one key overlap and both have returned, the
\* file of the key holds exactly the text of the call that returned last, and
\* a get that follows reads that call's result from it.
C22_LastWriterWins ==
    (Len(race.calls) >= 2 /\ OnlySets /\ AllDone) =>
        /\ race.dir # None
        /\ race.inodes[race.dir[1]] = TextOf(LastFinisher, race.calls[LastFinisher].result)
        /\ WholeEntry(race, race.dir[1])
              = Some([result |-> race.calls[LastFinisher].result, expired |-> FALSE])

\* The results a get may yield: the one of the earlier set and those of the
\* set calls of the race.
StoredResults ==
    (IF race.earlier = None THEN {} ELSE { race.earlier[1].result })
    \cup { race.calls[w].result : w \in { v \in DOMAIN race.calls : race.calls[v].op = "set" } }

\* C23: get, clear_expired and set calls that run concurrently on one key are
\* safe: no call raises, and every get yields a miss or a result some set stored.
C23_ConcurrentReadersSafe ==
    \A w \in DOMAIN race.calls :
        race.calls[w].pc = "done" =>
            /\ race.calls[w].raised = None
            /\ race.calls[w].op = "get" =>
                  (race.calls[w].value = PyNone \/ race.calls[w].value \in StoredResults)

\* A start() that returned with every stage's start successful and every scan
\* of the process table conclusive.
AllStarted(call) ==
    /\ call.op = "start" /\ call.raised = None /\ ~call.undecided
    /\ call.ok = <<TRUE, TRUE, TRUE, TRUE>>

\* The stages a call spawned a process of, one for each spawn.
SpawnedStages(call) ==
    LET spawns == SelectSeq(call.log, LAMBDA e : e[1] = "spawn")
    IN [i \in DOMAIN spawns |-> vnc.table[spawns[i][2]].name]

\* C24: of two start() calls in succession whose stages all start, the first
\* spawns no stage twice and the second, finding every stage live through
\* its probe, spawns nothing.
C24_SecondStartSpawnsNothing ==
    \A i \in 1 .. Len(vnc.history) - 1 :
        (AllStarted(vnc.history[i]) /\ AllStarted(vnc.history[i + 1])) =>
            /\ SpawnedStages(vnc.history[i + 1]) = <<>>
            /\ \A j, k \in DOMAIN SpawnedStages(vnc.history[i]) :
                   j # k => SpawnedStages(vnc.history[i])[j] # SpawnedStages(vnc.history[i])[k]

C24_Witness ==
    /\ Len(vnc.history) = 2
    /\ AllStarted(vnc.history[1]) /\ AllStarted(vnc.history[2])
    /\ Range(SpawnedStages(vnc.history[1])) = Range(Stages)

\* The call that runs or ran last, if it is start() or the start() of restart().
Starting == vnc.call.op \in {"start", "restart"}

FailedToStart(stage) == Some(<<"Exception", "Failed to start", stage>>)

\* C25: in start(), the failure of a hard stage raises at once and no later
\* stage is started, so x11vnc is spawned only after Xvfb was found live; the
\* failure of a soft stage does not raise, and the stages after it are started.
C25_HardFailureStopsTheChain ==
    Starting =>
        /\ \A i \in DOMAIN vnc.call.ok :
              (~vnc.call.ok[i] /\ Stages[i] \in HardStages) =>
                  /\ i = Len(vnc.call.ok)
                  /\ vnc.pc[1] = "idle"
                  /\ vnc.call.raised = FailedToStart(Stages[i])
        /\ \A e \in Range(vnc.call.log) :
              (e[1] = "spawn" /\ vnc.table[e[2]].name = "x11vnc") => vnc.call.ok[1]
        /\ \A i \in DOMAIN vnc.call.ok :
              (~vnc.call.ok[i] /\ Stages[i] \notin HardStages) =>
                  /\ vnc.call.raised \in {None} \cup { FailedToStart(stage) : stage \in HardStages }
                  /\ (vnc.pc[1] = "idle" /\ i < Len(Stages)) => Len(vnc.call.ok) > i
                  /\ (vnc.pc[1] = "idle" /\ i = Len(Stages)) => vnc.call.value = Scalar("True")

C25_Witness ==
    /\ vnc.call.op = "start" /\ vnc.pc[1] = "idle"
    /\ vnc.call.ok = <<TRUE, FALSE, FALSE>>
    /\ vnc.call.raised = FailedToStart("x11vnc")

\* The position of a process's stage in the start order.
StageIndex(pid) == CHOOSE i \in DOMAIN Stages : Stages[i] = vnc.table[pid].name

\* The log of the call holds a terminate or kill of the process before position a.
EndedBefore(pid, a) ==
    \E b \in 1 .. a - 1 : vnc.call.log[b][1] \in {"terminate", "kill"} /\ vnc.call.log[b][2] = pid

\* The processes of the display's stages that were alive when stop() began.
LiveAtStop ==
    { pid \in DOMAIN vnc.table :
        /\ vnc.table[pid].display = Display
        /\ vnc.table[pid].alive \/ EndedBefore(pid, Len(vnc.call.log) + 1) }

\* C26: stop() ends the live stages in the reverse of the start order: when a
\* process is terminated or killed, every live process of a stage started
\* after its own has been terminated or killed before, be it spawned by this
\* supervisor or found live.
C26_StopInReverseStartOrder ==
    vnc.call.op = "stop" =>
        \A a \in DOMAIN vnc.call.log :
            vnc.call.log[a][1] \in {"terminate", "kill"} =>
                \A later \in LiveAtStop :
                    StageIndex(later) > StageIndex(vnc.call.log[a][2]) => EndedBefore(later, a)

\* The processes the supervisor holds the handle of.
Held == { vnc.handles[stage][1] : stage \in { h \in Range(Stages) : vnc.handles[h] # None } }

\* The call that runs or ran last is stop(), and is not over or is.
Stopping == vnc.call.op = "stop"

Stopped == Stopping /\ vnc.pc[1] = "idle"

C28_NothingOfTheDisplaySurvivesStop ==
    Stopped => \A pid \in DOMAIN vnc.table : vnc.table[pid].display = Display => ~vnc.table[pid].alive

\* The calls that are liveness probes.
Probing == vnc.call.op \in Range(Stages)

\* C29: the supervisor raises nothing but the failure of a hard stage out of
\* start(): stop(), get_status() and the probes return whatever the process
\* table does, and a probe whose scan met a fault answers False.
C29_OnlyHardStartFailureRaises ==
    /\ vnc.call.raised # None =>
          /\ Starting
          /\ vnc.call.raised \in { FailedToStart(stage) : stage \in HardStages }
    /\ (Probing /\ vnc.call.undecided) => vnc.call.value = Scalar("False")

C29_Witness ==
    /\ vnc.call.op = "x11vnc" /\ vnc.call.undecided
    /\ vnc.call.value = Scalar("False") /\ vnc.call.raised = None
    /\ \E pid \in DOMAIN vnc.table : vnc.table[pid].alive /\ vnc.table[pid].name = "x11vnc"

\* A run_task call for the task id is in flight, and the task of the id has
\* reached COMPLETED or FAILED.
InFlight(task_id) == \E call \in calls : call.task_id = task_id

Finished(task_id) ==
    /\ ~InFlight(task_id)
    /\ Known(backend, task_id)
    /\ TaskOf(backend, task_id).status \in {"completed", "failed"}

\* The wrapped call has ended: it returned a value or raised.
RetryEnded == retry.pc \in {"returned", "raised"}

AtMostMaxAttempts ==
    Len(Calls(retry)) <= (IF retry.config.max_attempts > 0 THEN retry.config.max_attempts ELSE 0)

\* C30: under fairness every call returns: a run_task in flight leads to its
\* task COMPLETED or FAILED though the executor may never answer, a wrapped call
\* that has begun ends and never invokes more than max_attempts times, and a
\* stop() that has begun returns though a stage may never exit on terminate.
C30_EveryCallReturns ==
    /\ \A task_id \in TaskIds : InFlight(task_id) ~> Finished(task_id)
    /\ ~RetryUntouched ~> RetryEnded
    /\ []AtMostMaxAttempts
    /\ (Stopping /\ vnc.pc[1] # "idle") ~> Stopped

\* stop() has returned after two of its stages did not exit on terminate.
C30_Witness ==
    /\ Stopped
    /\ \E a, b \in DOMAIN vnc.call.log :
          /\ a < b
          /\ vnc.call.log[a][1] = "kill" /\ vnc.call.log[a][2] \in Held
          /\ vnc.call.log[b][1] = "kill" /\ vnc.call.log[b][2] \in Held

\* The terminal steps of the run that ended last.
TerminalSteps(action) == StepsSince(TaskOf(backend, ret.task_id), ret.call.base, action)

TerminalOf(outcome) ==
    CASE outcome = "returned" -> "task_completed"
      [] outcome = "timeout"  -> "task_timeout"
      [] OTHER                -> "task_failed"

\* C32: a run_task call on a known id begins with a task_started step, the
\* task RUNNING and started_at set, and records exactly one terminal step, the
\* one of its outcome: task_completed, task_timeout or task_failed; a run
\* that timed out records no task_failed step.
C32_OneTerminalStepByOutcome ==
    /\ (ret.op = "await" /\ ret.call.before # None) =>
          LET task == TaskOf(backend, ret.task_id) IN
          /\ task.status = "running" /\ task.started_at # None
          /\ task.steps[ret.call.base + 1].action = "task_started"
    /\ RunOfKnownId =>
          LET task == TaskOf(backend, ret.task_id) IN
          /\ task.steps[ret.call.base + 1].action = "task_started"
          /\ task.started_at # None
          /\ \A action \in {"task_completed", "task_timeout", "task_failed"} :
                Cardinality(TerminalSteps(action))
                  = IF action = TerminalOf(ret.call.outcome) THEN 1 ELSE 0

\* The run_task calls on known ids that have begun: each recorded a
\* task_started step on the task object it ran.
RunsBegun ==
    SumSeq([ref \in DOMAIN backend.heap |->
              Cardinality({ i \in DOMAIN backend.heap[ref].steps :
                              backend.heap[ref].steps[i].action = "task_started" })])

\* C35: when no run_task is in flight, total_tasks = successful_tasks +
\* failed_tasks = the number of run_task calls on known ids that have returned;
\* each such call adds one to total_tasks and one to exactly one of
\* successful_tasks and failed_tasks.
C35_MetricsCountReturnedRuns ==
    LET metrics == backend.performance_metrics IN
    /\ calls = {} =>
          /\ metrics.total_tasks = metrics.successful_tasks + metrics.failed_tasks
          /\ metrics.total_tasks = RunsBegun
    /\ RunOfKnownId =>
          /\ metrics.total_tasks = ret.call.metrics.total_tasks + 1
          /\ << metrics.successful_tasks - ret.call.metrics.successful_tasks,
                metrics.failed_tasks - ret.call.metrics.failed_tasks >>
                = IF ret.call.outcome = "returned" THEN <<1, 0>> ELSE <<0, 1>>

\* Two runs have returned: one completed, then one timed out.
C35_Witness ==
    /\ calls = {} /\ RunOfKnownId /\ ret.call.outcome = "timeout"
    /\ backend.performance_metrics.successful_tasks = 1
    /\ backend.performance_metrics.failed_tasks = 1
    /\ RunsBegun = 2

\* C36: when a run_task call on a known id has returned, also a repeated
\* run of the id, the fields of the task agree with its status: COMPLETED
\* with a result and no error, FAILED with an error; and steps_count of the
\* envelope is the length of the step list.
C36_FieldsAgreeWithStatus ==
    RunOfKnownId =>
        LET task == TaskOf(backend, ret.task_id) IN
        /\ task.status = "completed" => (task.result # None /\ task.error = None)
        /\ task.status = "failed" => task.error # None
        /\ ret.value # None /\ ret.value[1].steps_count = Len(task.steps)

\* The delays calculate_retry_delay may give for the attempt under the policy.
DelaysOf(attempt, config) ==
    { calculate_retry_delay(attempt, config, u, v) : u \in RandomDraws, v \in RandomDraws }

\* C33: within one wrapped call the attempts are ordered and never overlap:
\* an invocation ends before anything else happens, and attempt k + 1 is
\* invoked only after attempt k raised a retryable failure and the sleep of
\* the delay computed for attempt k is over.
C33_AttemptsInOrder ==
    /\ \A p \in DOMAIN retry.log :
          retry.log[p].what = "call" =>
              /\ p < Len(retry.log) =>
                    /\ retry.log[p + 1].what \in {"raise", "return"}
                    /\ retry.log[p + 1].attempt = retry.log[p].attempt
              /\ p = Len(retry.log) => retry.pc = "func"
              /\ IF p = 1 THEN retry.log[p].attempt = 1
                 ELSE /\ p >= 3
                      /\ retry.log[p - 2].what = "raise"
                      /\ retry.log[p - 2].attempt = retry.log[p].attempt - 1
                      /\ Caught(retry.log[p - 2].exception.type, retry.config.retry_on_exceptions)
                      /\ retry.log[p - 1].what = "sleep"
                      /\ retry.log[p - 1].attempt = retry.log[p].attempt - 1
                      /\ retry.log[p - 1].delay
                            \in DelaysOf(retry.log[p].attempt - 1, retry.config)
    /\ retry.pc = "sleep" => retry.log[Len(retry.log)].what = "sleep"

\* The third attempt is being invoked, after two failures and two sleeps.
C33_Witness ==
    /\ retry.pc = "func"
    /\ retry.attempt = 3
    /\ Len(Sleeps(retry)) = 2
    /\ Sleeps(retry)[1].delay # Sleeps(retry)[2].delay

\* C38: under every policy a call of the wrapper that ended has invoked the
\* wrapped function at least once, and an exception leaving the wrapper is
\* one an invocation of the function raised.
C38_InvokedAtLeastOnce ==
    retry.pc \in {"returned", "raised"} =>
        /\ Len(Calls(retry)) >= 1
        /\ retry.pc = "raised" =>
              \E p \in DOMAIN retry.log :
                  /\ retry.log[p].what = "raise"
                  /\ retry.raised = Some(retry.log[p].exception)

\* C39: the sweep of stop() kills only processes serving the supervisor's own
\* display: a process of another display stays alive whatever the supervisor
\* is called to do.
C39_SweepKillsOwnDisplayOnly ==
    \A pid \in DOMAIN vnc.table : vnc.table[pid].display # Display => vnc.table[pid].alive

----------------------------------------------------------------------------
(* Properties of the configurations *)

\* d[key] of a dict value
Under(value, key) == ValueOf(value.dict, key)

\* The result is the base with the override merged into it at every depth: a
\* key the override does not mention keeps the value of the base, a key of
\* both with dicts on both sides is merged in turn, and any other key of the
\* override has the override's value.
RECURSIVE MergedInto(_, _, _)
MergedInto(result, base, override) ==
    /\ IsDict(result)
    /\ Keys(result.dict) = Keys(base.dict) \cup Keys(override.dict)
    /\ \A key \in Keys(result.dict) :
          IF key \notin Keys(override.dict) THEN Under(result, key) = Under(base, key)
          ELSE IF /\ key \in Keys(base.dict)
                  /\ IsDict(Under(base, key))
                  /\ IsDict(Under(override, key))
          THEN MergedInto(Under(result, key), Under(base, key), Under(override, key))
          ELSE Under(result, key) = Under(override, key)

\* C31: the config a backend loads from an override, and the config
\* merge_configs returns, is the base with the override merged in recursively
\* at every depth, so that a base key the override does not mention keeps its
\* value at any nesting level.
C31_OverridesMergeAtEveryDepth ==
    (configs.ret.op \in {"merge_configs", "_load_config"} /\ IsDict(configs.ret.override)) =>
        MergedInto(configs.ret.value, configs.ret.base, configs.ret.override)

\* C40: the templates keep the values they were imported with, whatever the
\* callers do with the configs get_config and create_custom_config return.
C40_TemplatesKeepTheirValues ==
    \A config_name \in ConfigNames :
        ValueAt(configs.heap, CONFIG_TEMPLATES[config_name]) = TemplateLiteral(config_name)

----------------------------------------------------------------------------
(* The flows of src/example_usage.py: run_task behind the cache and behind *)
(* the retry wrapper                                                        *)

\* The dict run_task returned, as the value json.dump writes to the cache file.
EnvelopeValue(envelope) ==
    Dict(<< <<"task_id", Str(envelope.task_id)>>,
            <<"status", Str(envelope.status)>>,
            IF envelope.status = "completed"
            THEN <<"result", Dict(<< <<"value", Str(envelope.result.value)>> >>)>>
            ELSE <<"error", Str(envelope.error)>>,
            <<"duration", Scalar(ToString(envelope.duration))>>,
            <<"steps_count", Scalar(ToString(envelope.steps_count))>> >>)

\* if cached_result: of what get returned
IsHit(value) == value # PyNone /\ value # Dict(<<>>)

\* The config of the flow.
SubmitConfig == ConfigA

\* cached_result = task_cache.get(task_description, config): on a hit the flow
\* returns the cached result, on a miss it goes on to run the task.
SubmitLookup ==
    /\ flow.pc = "idle"
    /\ calls = {}
    /\ Len(SelectSeq(flow.log, LAMBDA event : event.what = "get")) < MaxSubmits
    /\ \E task_id \in TaskIds :
          /\ Known(backend, task_id)
          /\ LET task_description == TaskOf(backend, task_id).description
                 done == get(cache, task_description, SubmitConfig)
             IN /\ cache' = CacheCall("get", task_description, SubmitConfig, cache, done)
                /\ flow' = [pc      |-> IF IsHit(done.value) THEN "idle" ELSE "run",
                            task_id |-> task_id,
                            runs    |-> RunsBegun,
                            log     |-> Append(flow.log, [what |-> "get",
                                                          hit |-> IsHit(done.value),
                                                          value |-> done.value])]
    /\ UNCHANGED <<lifecycle, retry, backoff, race, vnc, configs>>

\* The flow is about to call run_task.
SubmitMayRun == flow.pc = "run" /\ RunsBegun = flow.runs

\* result = await backend.run_task(task_id, schema) has returned:
\* task_cache.set(task_description, config, result)
SubmitStore ==
    /\ flow.pc = "run"
    /\ RunsBegun = flow.runs + 1
    /\ calls = {}
    /\ ret.op = "run_task"
    /\ ret.raised = None
    /\ LET task_description == TaskOf(backend, flow.task_id).description
           result == EnvelopeValue(ret.value[1])
       IN /\ cache' = CacheCall("set", task_description, SubmitConfig, cache,
                                set(cache, task_description, SubmitConfig, result))
          /\ flow' = [flow EXCEPT !.pc = "idle",
                                  !.log = Append(@, [what |-> "set",
                                                     status |-> ret.value[1].status,
                                                     value |-> result])]
    /\ UNCHANGED <<lifecycle, retry, backoff, race, vnc, configs>>

\* SpecSubmit: a caller creates a task and submits it again and again through
\* the cache: lookup, run_task on a miss, store.
InitSubmit ==
    /\ Constructed
    /\ horizon = MaxClock
    /\ retry = RetryCall("async", RetryConfig)
    /\ backoff = NoDelay(RetryConfig)
    /\ cache = TaskCache(TtlHours)
    /\ race = NoRace
    /\ vnc = VNCManager(<<>>)

NextSubmit ==
    \/ flow.pc = "idle" /\ CreateTask(TRUE)
    \/ SubmitLookup
    \/ SubmitMayRun /\ RunTaskStart(TRUE) /\ ret'.task_id = flow.task_id
    \/ SubmitMayRun /\ RunTaskEnvFault(TRUE) /\ ret'.task_id = flow.task_id
    \/ flow.pc = "run" /\ RunTaskReturn
    \/ flow.pc = "run" /\ RunTaskTimeout
    \/ flow.pc = "run" /\ RunTaskFault
    \/ SubmitStore

SpecSubmit == InitSubmit /\ [][NextSubmit]_vars

\* The wrapped function of the batch flow is called for an id the manager
\* does not know: run_task raises ValueError before it touches anything.
BatchRunUnknown ==
    /\ retry.pc = "func"
    /\ \A task_id \in TaskIds : ~Known(backend, task_id)
    /\ \E u \in RandomDraws, v \in RandomDraws :
          retry' = Except(retry, Failure("ValueError", Len(Calls(retry))),
                          calculate_retry_delay(retry.attempt, retry.config, u, v))
    /\ UNCHANGED <<lifecycle, backoff, cache, race, vnc, configs, flow>>

\* The wrapped function has not called run_task yet in this attempt.
BatchMayRun == retry.pc = "func" /\ RunsBegun < Len(Calls(retry))

\* return await backend.run_task(task_id) of run_with_retry: what run_task
\* returned is returned by the wrapper, what it raised goes to the except
\* clause of the wrapper.
BatchRunEnds ==
    /\ retry.pc = "func"
    /\ RunsBegun = Len(Calls(retry))
    /\ calls = {}
    /\ ret.op = "run_task"
    /\ \E u \in RandomDraws, v \in RandomDraws :
          retry' = IF ret.raised = None
                   THEN [retry EXCEPT
                            !.pc = "returned",
                            !.value = ret.value,
                            !.log = Append(@, [what |-> "return", attempt |-> retry.attempt])]
                   ELSE Except(retry, [type |-> ret.raised[1].type,
                                       invocation |-> Len(Calls(retry))],
                               calculate_retry_delay(retry.attempt, retry.config, u, v))
    /\ UNCHANGED <<lifecycle, backoff, cache, race, vnc, configs, flow>>

\* The policy of the batch flow, RetryConfig(max_attempts=2,
\* strategy=RetryStrategy.LINEAR, base_delay=1.0), and the same with other
\* numbers of attempts.
BatchConfigs ==
    { [RetryConfig EXCEPT !.max_attempts = n, !.strategy = "linear"] : n \in 1 .. MaxAttempts }

\* SpecBatch: the batch flow for one task: create_task, or no create_task,
\* and then run_with_retry().
InitBatch ==
    /\ Constructed
    /\ horizon = MaxClock
    /\ \E config \in BatchConfigs : retry = RetryCall("async", config)
    /\ backoff = NoDelay(RetryConfig)
    /\ cache = TaskCache(TtlHours)
    /\ race = NoRace
    /\ vnc = VNCManager(<<>>)

NextBatch ==
    \/ retry.pc = "for" /\ retry.attempt = 0 /\ backend.tasks = <<>> /\ CreateTask(TRUE)
    \/ RetryAttempt
    \/ BatchRunUnknown
    \/ BatchMayRun /\ RunTaskStart(TRUE)
    \/ BatchMayRun /\ RunTaskEnvFault(TRUE)
    \/ retry.pc = "func" /\ RunTaskReturn
    \/ retry.pc = "func" /\ RunTaskTimeout
    \/ retry.pc = "func" /\ RunTaskFault
    \/ BatchRunEnds
    \/ RetryWake

SpecBatch == InitBatch /\ [][NextBatch]_vars

\* C34: in the submit flow a cache entry is written only for a run that
\* completed successfully: every file of the cache holds a completed result,
\* and when the flow has handled a failed or timed-out run a get of its
\* description and config is a miss.
C34_OnlySuccessfulRunsCached ==
    /\ \A key \in DOMAIN cache.store :
          cache.store[key].set_by # None =>
              Under(cache.store[key].set_by[1].result, "status") = Str("completed")
    /\ (flow.pc = "idle" /\ RunOfKnownId /\ ret.value[1].status = "failed") =>
          ~IsHit(get(cache, TaskOf(backend, ret.task_id).description, SubmitConfig).value)

\* The manager knew the id when the wrapper was called.
BatchOfKnownId == backend.tasks # <<>>

\* C37: behind the retry wrapper a run_task call on a known id invokes the
\* executor path once whatever the outcome: the wrapper makes one attempt,
\* never sleeps, and returns the envelope of that run, also when the policy
\* allows more attempts.
C37_OneInvocationBehindRetry ==
    BatchOfKnownId =>
        /\ Len(Calls(retry)) <= 1
        /\ RunsBegun <= 1
        /\ Sleeps(retry) = <<>>
        /\ retry.pc # "raised"
        /\ retry.pc = "returned" =>
              /\ RunsBegun = 1
              /\ RunOfKnownId
              /\ retry.value = ret.value

\* A policy of three attempts, a run that timed out, and the wrapper has
\* returned its failed envelope after one invocation.
C37_Witness ==
    /\ BatchOfKnownId
    /\ retry.config.max_attempts = 3
    /\ retry.pc = "returned"
    /\ ret.call.outcome = "timeout"
    /\ retry.value[1].status = "failed"
    /\ RunsBegun = 1

====
